---- MODULE Spec2Model ----
(***************************************************************************)
(* The credit-card statement pipeline: the refine stages of refine.py      *)
(* (card mapping, channel identification, transaction-type classification, *)
(* prefix assembly, output) and the assembly stage of etl.py that feeds    *)
(* them.  The ledger (a pandas DataFrame) is a sequence of rows, a row a   *)
(* record of its columns.  A vectorised statement df.loc[mask, col] = v    *)
(* is one update of the whole sequence.                                    *)
(*                                                                         *)
(* Text is a sequence of symbols (a character or an indivisible word), so  *)
(* that containment, stripping, splitting and concatenation are computed.  *)
(* The category labels of the source are CJK strings; here they carry      *)
(* ASCII names, one per label.                                             *)
(***************************************************************************)
EXTENDS Integers, Sequences, FiniteSets, TLC

VARIABLES
    pc,            \* position in the pipeline
    df,            \* the ledger
    entry,         \* the ledger as it entered the current stage (history)
    config,        \* mapping_rules.yaml: the three keyword lists
    mask_general,  \* classify_transaction_type: local mask_general
    out,           \* the CSV written by main (sequence of rows), or <<>>
    card_rules,    \* card_mapping.csv: the rules in declaration order
    rule_idx,      \* position of the running rule loop
    df_card_clean, \* apply_card_mapping: local df_card_clean
    df_mobile_clean, \* apply_card_mapping: local df_mobile_clean
    hits,          \* per row, the positions of the rules whose mask held it (history)
    payment_csv,   \* payment_regex_rules.csv: the rules in declaration order
    payment_rules, \* load_payment_rules: the list main passes on
    merchant_csv,  \* merchant_regex_rules.csv: the rules in declaration order
    merchant_rules, \* load_merchant_regex_rules: the list main passes on
    result_csv,    \* result_all_banks.csv as etl.py wrote it, or <<>>
    payment_config,   \* db_to_RFManalysis: the payment settings file
    merchant_config,  \* db_to_RFManalysis: the merchant settings file
    payment_prefixes, \* load_payment_prefixes: the list main passes on
    rules_list,       \* load_merchant_config_hybrid: the regex rules
    lookup_dict,      \* load_merchant_config_hybrid: key -> info
    raw_name,         \* process_merchant_hybrid: the argument
    current_name,     \* process_merchant_hybrid: local current_name
    resolved,         \* process_merchant_hybrid: the tuple returned, or <<>>
    date_str,         \* parse_date_with_year: the token
    base_year,        \* parse_date_with_year: the billing year
    bill_month,       \* parse_date_with_year: the billing month
    parsed,           \* parse_date_with_year: the value returned, or <<>>
    raw_location,     \* normalize_country_code: the argument
    normalized,       \* normalize_country_code: the value returned, or <<>>
    all_lines,        \* smart_read_csv: the lines of the file
    header_keyword,   \* smart_read_csv: the keyword, or NaNText for None
    scan_i,           \* smart_read_csv: the loop index i
    found_header,     \* smart_read_csv: local found_header
    frame,            \* smart_read_csv: the frame returned, or <<>>
    file_list,        \* etl.py __main__: the files of the data folder
    file_idx,         \* etl.py __main__: position of the loop over the files
    all_data,         \* etl.py __main__: the frames collected
    final_df          \* etl.py __main__: the ledger written, or <<>>

cardLocals == <<card_rules, rule_idx, df_card_clean, df_mobile_clean, hits>>
channelLocals == <<payment_csv, payment_rules>>
pipeLocals == <<merchant_csv, merchant_rules, result_csv>>
resolverLocals ==
    <<payment_config, merchant_config, payment_prefixes, rules_list,
      lookup_dict, raw_name, current_name, resolved>>
dateLocals == <<date_str, base_year, bill_month, parsed>>
countryLocals == <<raw_location, normalized>>
readerLocals == <<all_lines, header_keyword, scan_i, found_header, frame>>
routerLocals == <<file_list, file_idx, all_data, final_df>>
toolLocals ==
    <<resolverLocals, dateLocals, countryLocals, readerLocals, routerLocals>>
pipelineVars ==
    <<df, entry, config, mask_general, out, cardLocals, channelLocals, pipeLocals>>

vars ==
    <<pc, df, entry, config, mask_general, out, card_rules, rule_idx,
      df_card_clean, df_mobile_clean, hits, payment_csv, payment_rules,
      merchant_csv, merchant_rules, result_csv, toolLocals>>

\* ------------------------------------------------------------------ bounds
MaxRows == 1
MaxCardRules == 2
MaxChannelRules == 2

\* load_payment_rules: the priority given to a rule whose cell is not a number.
PriorityDefault == 999

\* ------------------------------------------------------------------ values
\* A float column holds NaN or a number.
NaN == <<>>
Num(n) == <<n>>
IsNum(a) == a # NaN
Val(a) == a[1]

\* An object (string) column that holds a missing value (NaN/None).
NaNStr == "<NaN>"
NaNText == <<NaNStr>>

\* Text literals.
TW == <<"T", "W">>
JP == <<"J", "P">>
EmptyText == <<>>

\* ------------------------------------------------------------------ text
\* pat occurs in text (str.contains of a literal pattern).
Contains(text, pat) ==
    \E i \in 1..(Len(text) - Len(pat) + 1) :
        SubSeq(text, i, i + Len(pat) - 1) = pat

\* Case folding of one symbol (re.IGNORECASE on the letters of the model).
FoldSym(c) ==
    CASE c = "P" -> "p"
      [] c = "C" -> "c"
      [] c = "F" -> "f"
      [] OTHER -> c

Fold(text) == [i \in DOMAIN text |-> FoldSym(text[i])]

\* str.contains('|'.join(kws), case=False): an empty list is '(?!)', which
\* matches nothing.
ContainsAnyFold(text, kws) ==
    \E k \in DOMAIN kws : Contains(Fold(text), Fold(kws[k]))

\* The fixed exclusion pattern of the payment stage: three literal words.
ExclusionWords == << <<"daishou">>, <<"shouxufei">>, <<"yunfei">> >>

IsSpace(c) == c \in {" ", "\t"}

SetMin(S) == CHOOSE x \in S : \A y \in S : x <= y
SetMax(S) == CHOOSE x \in S : \A y \in S : x >= y

\* str.strip(): leading and trailing whitespace removed.
Strip(t) ==
    LET keep == {i \in DOMAIN t : ~IsSpace(t[i])}
    IN  IF keep = {} THEN <<>> ELSE SubSeq(t, SetMin(keep), SetMax(keep))

\* str.replace(' ', ''): every blank removed (a tab is kept).
RemoveSpaces(t) == SelectSeq(t, LAMBDA c : c # " ")

\* ------------------------------------------------------------------ labels
\* Transaction_Type vocabulary (refine.py 258..340).
T_PAYMENT == "payment"           \* jiaokuan
T_CREDIT == "credit"             \* zhedi
T_REFUND == "refund"             \* tuishua
T_FEE == "fee"                   \* gexiang feiyong
T_ZERO == "zero"                 \* yanzheng/lingyuan
T_TXN == "txn"                   \* jiaoyi
T_FOREIGN == "foreign"           \* yiban guowai jiaoyi
T_TWD_CROSS == "twd_cross"       \* taibi kuajing jiaoyi
T_DUAL == "dual"                 \* yiban shuangbi jiaoyi

Vocabulary ==
    {T_PAYMENT, T_CREDIT, T_REFUND, T_FEE, T_ZERO, T_TXN,
     T_FOREIGN, T_TWD_CROSS, T_DUAL}

ForeignTypes == {T_FOREIGN, T_TWD_CROSS, T_DUAL}

\* ------------------------------------------------------------------ frames
\* df.loc[mask, col] = v
SetCol(d, mask, col, v) ==
    [i \in DOMAIN d |-> IF i \in mask THEN [d[i] EXCEPT ![col] = v] ELSE d[i]]

Rows(d) == DOMAIN d

\* ------------------------------------------------ classify_transaction_type
merchant_str(d, i) == d[i].Merchant

Unset(d, i) == d[i].Transaction_Type = ""

mask_payment_no_exclusion(d, cfg) ==
    {i \in Rows(d) :
        /\ ContainsAnyFold(merchant_str(d, i), cfg.payment_keywords)
        /\ Unset(d, i)}

mask_payment(d, cfg) ==
    {i \in Rows(d) :
        /\ ContainsAnyFold(merchant_str(d, i), cfg.payment_keywords)
        /\ Unset(d, i)
        /\ ~ContainsAnyFold(merchant_str(d, i), ExclusionWords)}

mask_credit(d, cfg) ==
    {i \in Rows(d) :
        /\ ContainsAnyFold(merchant_str(d, i), cfg.credit_keywords)
        /\ Unset(d, i)}

mask_refund_unguarded(d) ==
    {i \in Rows(d) : IsNum(d[i].Payment_Amount) /\ Val(d[i].Payment_Amount) < 0}

mask_refund(d) ==
    {i \in Rows(d) :
        /\ IsNum(d[i].Payment_Amount) /\ Val(d[i].Payment_Amount) < 0
        /\ Unset(d, i)}

mask_fee(d, cfg) ==
    {i \in Rows(d) :
        /\ ContainsAnyFold(merchant_str(d, i), cfg.fee_keywords)
        /\ Unset(d, i)}

mask_zero(d) ==
    {i \in Rows(d) :
        /\ IsNum(d[i].Payment_Amount) /\ Val(d[i].Payment_Amount) = 0
        /\ Unset(d, i)}

MaskGeneralAboveFifty(d) ==
    {i \in Rows(d) :
        /\ IsNum(d[i].Payment_Amount) /\ Val(d[i].Payment_Amount) > 50
        /\ Unset(d, i)}

MaskGeneral(d) ==
    {i \in Rows(d) :
        /\ IsNum(d[i].Payment_Amount) /\ Val(d[i].Payment_Amount) > 0
        /\ Unset(d, i)}

\* Stage 1: the label, then the four cleared columns.
StagePayment(d, cfg) ==
    LET m == mask_payment(d, cfg) IN
    [i \in DOMAIN d |->
        IF i \in m
        THEN [d[i] EXCEPT !.Transaction_Type = T_PAYMENT,
                          !.Card_Type = "",
                          !.Mobile_Payment = "",
                          !.Consumption_Place = "",
                          !.payment_prefix = EmptyText]
        ELSE d[i]]

StageCredit(d, cfg) ==
    LET m == mask_credit(d, cfg) IN
    [i \in DOMAIN d |->
        IF i \in m
        THEN [d[i] EXCEPT !.Transaction_Type = T_CREDIT,
                          !.Mobile_Payment = "",
                          !.payment_prefix = EmptyText]
        ELSE d[i]]

StageRefund(d) == SetCol(d, mask_refund(d), "Transaction_Type", T_REFUND)

StageFeeKeepsPrefix(d, cfg) ==
    LET m == mask_fee(d, cfg) IN
    [i \in DOMAIN d |->
        IF i \in m
        THEN [d[i] EXCEPT !.Transaction_Type = T_FEE, !.Mobile_Payment = ""]
        ELSE d[i]]

StageFee(d, cfg) ==
    LET m == mask_fee(d, cfg) IN
    [i \in DOMAIN d |->
        IF i \in m
        THEN [d[i] EXCEPT !.Transaction_Type = T_FEE,
                          !.Mobile_Payment = "",
                          !.payment_prefix = EmptyText]
        ELSE d[i]]

StageZeroOther(d) == SetCol(d, mask_zero(d), "Transaction_Type", "lingyuan")

StageZero(d) == SetCol(d, mask_zero(d), "Transaction_Type", T_ZERO)

\* Step A: every row of mask_general is labelled with the default.
StageGeneralDefault(d, mg) == SetCol(d, mg, "Transaction_Type", T_TXN)

foreign_indices_strict(d, mg) ==
    {i \in mg :
        /\ d[i].Merchant_Location # TW
        /\ d[i].Currency_Type # "" /\ d[i].Payment_Currency # ""
        /\ IsNum(d[i].Currency_Amount) /\ Val(d[i].Currency_Amount) # 0}

\* Step B: the rows of mask_general located outside the home country.
foreign_indices(d, mg) == {i \in mg : d[i].Merchant_Location # TW}

mask_diff_swapped(d, fi) ==
    {i \in fi : d[i].Currency_Type = d[i].Payment_Currency}

mask_diff(d, fi) ==
    {i \in fi : d[i].Currency_Type # d[i].Payment_Currency}

same_indices(d, fi) == fi \ mask_diff(d, fi)

mask_twd(d, si) == {i \in si : d[i].Currency_Type = "TWD"}

StageForeignDiff(d, mg) ==
    SetCol(d, mask_diff(d, foreign_indices(d, mg)), "Transaction_Type", T_FOREIGN)

StageSameTWDNoSync(d, mg) ==
    LET si == same_indices(d, foreign_indices(d, mg))
    IN  SetCol(d, mask_twd(d, si), "Transaction_Type", T_TWD_CROSS)

\* The label of the home-currency rows, then the forced amount.
StageSameTWD(d, mg) ==
    LET si == same_indices(d, foreign_indices(d, mg))
        target_twd == mask_twd(d, si)
    IN  [i \in DOMAIN d |->
            IF i \in target_twd
            THEN [d[i] EXCEPT !.Transaction_Type = T_TWD_CROSS,
                              !.Currency_Amount = d[i].Payment_Amount]
            ELSE d[i]]

StageSameDual(d, mg) ==
    LET si == same_indices(d, foreign_indices(d, mg))
    IN  SetCol(d, si \ mask_twd(d, si), "Transaction_Type", T_DUAL)

\* -------------------------------------------------------- apply_card_mapping
\* for col in MAPPING_SCHEMA: rules[col] = rules[col].str.strip()
StripRule(r) ==
    [r EXCEPT !.card_no = Strip(r.card_no), !.prefix = Strip(r.prefix),
              !.replace = Strip(r.replace)]

\* Card_No with blanks removed, as the loop sees it for every rule.
card_clean(d) == [i \in DOMAIN d |-> Strip(RemoveSpaces(d[i].Card_No))]

\* Mobile_Payment stripped, with the text 'nan' read as empty.  A channel
\* tag is one symbol without surrounding whitespace (main strips the column).
mobile_clean(d) ==
    [i \in DOMAIN d |->
        IF d[i].Mobile_Payment = "nan" THEN "" ELSE d[i].Mobile_Payment]

target_card(r) == RemoveSpaces(r.card_no)

card_mask_mobile_always(r, cc, mc) ==
    {i \in DOMAIN cc :
        /\ cc[i] = target_card(r)
        /\ r.mobile # "" => mc[i] = r.mobile}

\* The three branches of the mask: dual number, fragment with a required
\* channel tag, fragment alone.
card_mask(r, cc, mc) ==
    IF Contains(target_card(r), <<"/">>)
    THEN {i \in DOMAIN cc : cc[i] = target_card(r)}
    ELSE IF r.mobile # ""
    THEN {i \in DOMAIN cc : cc[i] = target_card(r) /\ mc[i] = r.mobile}
    ELSE {i \in DOMAIN cc : cc[i] = target_card(r)}

\* The rows rule r acts on: none when its fragment is empty (continue).
rule_mask(r, cc, mc) ==
    IF target_card(r) = EmptyText THEN {} ELSE card_mask(r, cc, mc)

ApplyCardRuleLive(d, r, mask) ==
    [i \in DOMAIN d |->
        IF i \in rule_mask(r, card_clean(d), mobile_clean(d))
        THEN [d[i] EXCEPT
                !.Card_Type = IF r.card_type # "" THEN r.card_type ELSE @,
                !.Mobile_Payment = IF r.mobile # "" THEN r.mobile ELSE @,
                !.payment_prefix = IF r.prefix # EmptyText THEN r.prefix ELSE @,
                !.Card_No = IF r.replace # EmptyText THEN r.replace ELSE @]
        ELSE d[i]]

\* if mask.any(): the four conditional writes.
ApplyCardRule(d, r, mask) ==
    [i \in DOMAIN d |->
        IF i \in mask
        THEN [d[i] EXCEPT
                !.Card_Type = IF r.card_type # "" THEN r.card_type ELSE @,
                !.Mobile_Payment = IF r.mobile # "" THEN r.mobile ELSE @,
                !.payment_prefix = IF r.prefix # EmptyText THEN r.prefix ELSE @,
                !.Card_No = IF r.replace # EmptyText THEN r.replace ELSE @]
        ELSE d[i]]

CardRuleAtReversed(rules, k) == rules[Len(rules) - k + 1]

\* rules.iterrows(): the k-th rule visited is the k-th declared.
CardRuleAt(rules, k) == rules[k]

\* -------------------------------------------------- cleanup_cathay_remaining
\* str.split('/', n=1).str[0]
FirstSegment(t) ==
    LET cut == {i \in DOMAIN t : t[i] = "/"}
    IN  IF cut = {} THEN t ELSE SubSeq(t, 1, SetMin(cut) - 1)

cleanup_every_bank(d) ==
    [i \in DOMAIN d |->
        IF Contains(d[i].Card_No, <<"/">>)
        THEN [d[i] EXCEPT !.Card_No = Strip(FirstSegment(d[i].Card_No))]
        ELSE d[i]]

cleanup_cathay_remaining(d) ==
    [i \in DOMAIN d |->
        IF d[i].Bank_Name = "cube_bank" /\ Contains(d[i].Card_No, <<"/">>)
        THEN [d[i] EXCEPT !.Card_No = Strip(FirstSegment(d[i].Card_No))]
        ELSE d[i]]

\* -------------------------------------------------------- load_payment_rules
\* pd.to_numeric(errors='coerce').fillna(999): a raw priority is a number or
\* NaN (an empty or non-numeric cell).
Priority(r) == IF IsNum(r.priority) THEN Val(r.priority) ELSE PriorityDefault

Orders(n) ==
    {f \in [1..n -> 1..n] : \A a, b \in 1..n : a # b => f[a] # f[b]}

\* sort_values(by='Priority', ascending=False) with the default kind
\* 'quicksort', which is not stable: every order that is descending in
\* priority is a possible result, whatever the order of equal priorities.
DescendingOrders(rules) ==
    {f \in Orders(Len(rules)) :
        \A a, b \in 1..Len(rules) :
            a < b => Priority(rules[f[a]]) >= Priority(rules[f[b]])}

\* The lists load_payment_rules can return for a rule file: empty when the
\* file is missing, the declared order when it has no Priority column.
load_payment_rules(csv) ==
    IF ~csv.exists \/ ~csv.readable THEN {<<>>}
    ELSE IF ~csv.has_priority THEN {csv.rules}
    ELSE {[k \in 1..Len(csv.rules) |-> csv.rules[f[k]]] :
            f \in DescendingOrders(csv.rules)}

\* ---------------------------------------------- identify_third_party_payment
\* str.contains(pattern, regex=True, na=False) of a literal pattern.
\* A pattern with an unclosed "(" does not compile: re raises re.error.
ValidRegex(pattern) == \A i \in DOMAIN pattern : pattern[i] # "("

\* str.contains(pattern, regex=True) compiles the pattern first; nothing in
\* identify_third_party_payment or in main catches the re.error.
ChannelRuleRaises(r) == r.pattern # EmptyText /\ ~ValidRegex(r.pattern)

channel_mask(d, r) == {i \in DOMAIN d : Contains(d[i].Merchant, r.pattern)}

target_mask_unguarded(d, r) == channel_mask(d, r)

target_mask(d, r) == {i \in channel_mask(d, r) : d[i].Mobile_Payment = ""}

\* One turn of the loop: a rule without pattern is skipped.
ApplyChannelRule(d, r) ==
    IF r.pattern = EmptyText THEN d
    ELSE [i \in DOMAIN d |->
            IF i \in target_mask(d, r)
            THEN [d[i] EXCEPT !.payment_prefix = r.prefix_label,
                              !.Mobile_Payment = r.category]
            ELSE d[i]]

\* ---------------------------------------------------- normalize_country_code
\* str.upper() on the letters of the model.
UpperSym(c) ==
    CASE c = "t" -> "T"
      [] c = "w" -> "W"
      [] c = "n" -> "N"
      [] c = "j" -> "J"
      [] c = "p" -> "P"
      [] OTHER -> c

Upper(t) == [i \in DOMAIN t |-> UpperSym(t[i])]

FirstTokenAnySpace(t) ==
    LET cut == {i \in DOMAIN t : IsSpace(t[i])}
    IN  IF cut = {} THEN t ELSE SubSeq(t, 1, SetMin(cut) - 1)

\* str.split(' ')[0]: the text before the first blank (a tab does not split).
FirstToken(t) ==
    LET cut == {i \in DOMAIN t : t[i] = " "}
    IN  IF cut = {} THEN t ELSE SubSeq(t, 1, SetMin(cut) - 1)

mapping_3to2 ==
    { << <<"T", "W", "N">>, <<"T", "W">> >>, << <<"U", "S", "A">>, <<"U", "S">> >>,
      << <<"J", "P", "N">>, <<"J", "P">> >>, << <<"K", "O", "R">>, <<"K", "R">> >>,
      << <<"H", "K", "G">>, <<"H", "K">> >>, << <<"S", "G", "P">>, <<"S", "G">> >>,
      << <<"G", "B", "R">>, <<"G", "B">> >>, << <<"C", "H", "N">>, <<"C", "N">> >>,
      << <<"I", "R", "L">>, <<"I", "E">> >>, << <<"D", "E", "U">>, <<"D", "E">> >>,
      << <<"F", "R", "A">>, <<"F", "R">> >>, << <<"A", "U", "S">>, <<"A", "U">> >>,
      << <<"V", "N", "M">>, <<"V", "N">> >>, << <<"T", "H", "A">>, <<"T", "H">> >>,
      << <<"M", "Y", "S">>, <<"M", "Y">> >>, << <<"I", "D", "N">>, <<"I", "D">> >> }

normalize_country_code(code) ==
    IF code = NaNText THEN TW
    ELSE LET stripped_code == Strip(code) IN
         IF stripped_code = EmptyText THEN TW
         ELSE LET clean_code == FirstToken(Upper(stripped_code)) IN
              IF \E e \in mapping_3to2 : e[1] = clean_code
              THEN (CHOOSE e \in mapping_3to2 : e[1] = clean_code)[2]
              ELSE IF Len(clean_code) = 2 THEN clean_code
              ELSE clean_code

\* ------------------------------------------ process_bank_file, Node 5 (5 to 7)
\* 5: the location of every row is normalised.
NormalizeLocations(d) ==
    [i \in DOMAIN d |->
        [d[i] EXCEPT !.Merchant_Location = normalize_country_code(@)]]

\* 6: a home row carries neither transaction currency nor its amount.
ClearDomestic(d) ==
    [i \in DOMAIN d |->
        IF d[i].Merchant_Location = TW
        THEN [d[i] EXCEPT !.Currency_Type = NaNStr, !.Currency_Amount = NaN]
        ELSE d[i]]

\* 7: a foreign row without transaction currency gets the home currency.
DefaultForeignCurrency(d) ==
    [i \in DOMAIN d |->
        IF d[i].Merchant_Location # TW /\ d[i].Currency_Type = NaNStr
        THEN [d[i] EXCEPT !.Currency_Type = "TWD"]
        ELSE d[i]]

\* ------------------------------------------------------------ refine.py main
\* str.lower() on the letters of the model.
LowerSym(c) ==
    CASE c = "N" -> "n"
      [] c = "A" -> "a"
      [] c = "T" -> "t"
      [] c = "W" -> "w"
      [] c = "J" -> "j"
      [] c = "P" -> "p"
      [] OTHER -> c

Lower(t) == [i \in DOMAIN t |-> LowerSym(t[i])]

\* The text cells pandas reads as missing (default na_values).
NaTokens ==
    { <<"N", "A">>, <<"N", "a", "N">>, <<"n", "a", "n">>, <<"N", "U", "L", "L">> }

\* A text cell through to_csv, read_csv(dtype=str), fillna(''), str.strip()
\* and the 'nan' reset.
ReadText(t) ==
    IF t = NaNText \/ t \in NaTokens THEN EmptyText
    ELSE LET stripped == Strip(t) IN
         IF Lower(stripped) = <<"n", "a", "n">> THEN EmptyText ELSE stripped

\* The same for a cell holding one symbol without surrounding whitespace.
ReadSym(v) == IF v \in {NaNStr, "NA", "NaN", "nan", "NULL"} THEN "" ELSE v

\* Type coercion and initialisation of the columns (refine.py 359..375):
\* payment_prefix, absent from the file, starts empty.
ReadRow(r) ==
    [Bank_Name |-> ReadSym(r.Bank_Name),
     Card_Type |-> ReadSym(r.Card_Type),
     Card_No |-> ReadText(r.Card_No),
     Merchant |-> ReadText(r.Merchant),
     Merchant_Location |-> ReadText(r.Merchant_Location),
     Consumption_Place |-> ReadSym(r.Consumption_Place),
     Transaction_Type |-> ReadSym(r.Transaction_Type),
     Mobile_Payment |-> ReadSym(r.Mobile_Payment),
     Currency_Type |-> ReadSym(r.Currency_Type),
     Currency_Amount |-> r.Currency_Amount,
     Payment_Currency |-> ReadSym(r.Payment_Currency),
     Payment_Amount |-> r.Payment_Amount,
     payment_prefix |-> EmptyText]

\* ------------------------------------------------- load_merchant_regex_rules
\* Replacement.fillna('')
FillReplacement(r) ==
    [r EXCEPT !.replacement = IF @ = NaNText THEN EmptyText ELSE @]

\* Pattern.notna() & (Pattern.str.strip() != '')
HasPattern(r) == r.pattern # NaNText /\ Strip(r.pattern) # EmptyText

load_merchant_regex_rules(csv) ==
    IF ~csv.exists \/ ~csv.readable THEN {<<>>}
    ELSE LET orders == IF csv.has_priority
                       THEN DescendingOrders(csv.rules)
                       ELSE {[k \in 1..Len(csv.rules) |-> k]}
         IN  {SelectSeq([k \in 1..Len(csv.rules) |-> FillReplacement(csv.rules[f[k]])],
                        HasPattern) : f \in orders}

\* -------------------------------------------------------- process_esun_epoint
\* The digits of the model and their value (thousands separators removed).
DigitValue(c) ==
    CASE c = "30" -> 30
      [] c = "1,000" -> 1000
      [] OTHER -> -1

\* Positions where the phrase, a number of points, the conversion words, an
\* amount and the unit follow each other (the extraction pattern).
EPointAt(t) ==
    {i \in 1..(Len(t) - 4) :
        /\ t[i] = "shiyong e point"
        /\ DigitValue(t[i + 1]) >= 0
        /\ t[i + 2] = "dian zhe xianjin"
        /\ DigitValue(t[i + 3]) >= 0
        /\ t[i + 4] = "yuan"}

\* str.contains('shiyong e point', case=False)
MentionsEPoint(t) ==
    \E i \in DOMAIN t : t[i] \in {"shiyong e point", "shiyong E POINT"}

process_esun_epoint(d) ==
    [i \in DOMAIN d |->
        IF /\ d[i].Bank_Name = "esun_bank"
           /\ MentionsEPoint(d[i].Merchant)
           /\ EPointAt(d[i].Merchant) # {}
        THEN [d[i] EXCEPT
                !.Payment_Amount =
                    Num(0 - DigitValue(d[i].Merchant[SetMin(EPointAt(d[i].Merchant)) + 3])),
                !.Payment_Currency = "TWD"]
        ELSE d[i]]

\* ---------------------------------------------------- clean_merchant_by_regex
\* The text with the first occurrence of the pattern replaced.
Splice(text, pattern, replacement) ==
    LET at == SetMin({i \in 1..(Len(text) - Len(pattern) + 1) :
                        SubSeq(text, i, i + Len(pattern) - 1) = pattern})
    IN  SubSeq(text, 1, at - 1) \o replacement
            \o SubSeq(text, at + Len(pattern), Len(text))

ApplyMerchantRuleSplice(d, r) ==
    IF r.replacement = EmptyText \/ ~ValidRegex(r.pattern) THEN d
    ELSE [i \in DOMAIN d |->
            IF Contains(d[i].Merchant, r.pattern)
            THEN [d[i] EXCEPT !.Merchant = Splice(@, r.pattern, r.replacement)]
            ELSE d[i]]

\* One turn of the loop: a rule without replacement is skipped, and so is a
\* rule whose pattern raises (the except branch); every row whose merchant
\* text holds the pattern gets the replacement as its text.
ApplyMerchantRule(d, r) ==
    IF r.replacement = EmptyText \/ ~ValidRegex(r.pattern) THEN d
    ELSE [i \in DOMAIN d |->
            IF Contains(d[i].Merchant, r.pattern)
            THEN [d[i] EXCEPT !.Merchant = r.replacement]
            ELSE d[i]]

\* ------------------------------------------------------ apply_final_prefixes
\* Series + Series on strings: a missing operand gives a missing result.
Concat(p, m) == IF p = NaNText \/ m = NaNText THEN NaNText ELSE p \o m

DropCol(r, col) == [f \in (DOMAIN r) \ {col} |-> r[f]]

apply_final_prefixes(d) ==
    [i \in DOMAIN d |->
        DropCol(
            IF d[i].payment_prefix # EmptyText
            THEN [d[i] EXCEPT !.Merchant = Concat(d[i].payment_prefix, d[i].Merchant)]
            ELSE d[i],
            "payment_prefix")]

\* ------------------------------------------------------------------ output
cols_order ==
    {"Bank_Name", "Card_Type", "Card_No", "Merchant", "Merchant_Location",
     "Consumption_Place", "Transaction_Type", "Mobile_Payment",
     "Currency_Type", "Currency_Amount", "Payment_Currency", "Payment_Amount"}

df_final(d) == [i \in DOMAIN d |-> [f \in cols_order |-> d[i][f]]]

\* ------------------------------------------------------------------ actions
\* ------------------------------------------------------- db_to_RFManalysis
\* str() of a cell read with dtype=str: a missing cell is the float nan.
Str(t) == IF t = NaNText THEN <<"n", "a", "n">> ELSE t
StrSym(v) == IF v = NaNStr THEN "nan" ELSE v

\* str.startswith
StartsWith(t, prefix) ==
    Len(prefix) <= Len(t) /\ SubSeq(t, 1, Len(prefix)) = prefix

SortByLenAsc(q) ==
    LET f == CHOOSE g \in Orders(Len(q)) :
                 \A a, b \in 1..Len(q) :
                     a < b => \/ Len(q[g[a]]) < Len(q[g[b]])
                              \/ Len(q[g[a]]) = Len(q[g[b]]) /\ g[a] < g[b]
    IN  [k \in 1..Len(q) |-> q[f[k]]]

\* list.sort(key=len, reverse=True): longest first, and stable, so labels of
\* equal length keep the order of the file.
SortByLenDesc(q) ==
    LET f == CHOOSE g \in Orders(Len(q)) :
                 \A a, b \in 1..Len(q) :
                     a < b => \/ Len(q[g[a]]) > Len(q[g[b]])
                              \/ Len(q[g[a]]) = Len(q[g[b]]) /\ g[a] < g[b]
    IN  [k \in 1..Len(q) |-> q[f[k]]]

\* Prefix_Label.dropna().astype(str).str.strip().tolist()
PrefixLabels(labels) ==
    LET kept == SelectSeq(labels, LAMBDA l : l # NaNText)
    IN  [k \in 1..Len(kept) |-> Strip(kept[k])]

load_payment_prefixes(csv) ==
    IF ~csv.exists THEN <<>>
    ELSE IF ~csv.has_label THEN <<>>
    ELSE SortByLenDesc(PrefixLabels(csv.labels))

\* str(row['RFM_Exclusion']).lower() == 'true'
IsTrue(v) == v \in {"True", "TRUE", "true"}

\* The dictionary built from one row of the settings file.
RuleInfo(row, has_sub_category) ==
    [name |-> Str(row.replacement),
     category |-> StrSym(row.category),
     sub_category |-> IF has_sub_category THEN StrSym(row.sub_category) ELSE "",
     RFM_Exclusion |-> IsTrue(row.exclusion)]

\* The rows of df_sorted that compile, in the order of df_sorted.
CompiledRows(sorted) == SelectSeq(sorted, LAMBDA row : ValidRegex(Str(row.pattern)))

\* rules_list, from the compiled rows.
RulesOf(rows, has_sub_category) ==
    [k \in 1..Len(rows) |->
        [pattern |-> Str(rows[k].pattern),
         info |-> RuleInfo(rows[k], has_sub_category)]]

\* lookup_dict, from the compiled rows: the first row of a key keeps it.
LookupOf(rows, has_sub_category) ==
    LET key(k) == Strip(Str(rows[k].replacement))
    IN  [c \in {key(k) : k \in 1..Len(rows)} |->
            RuleInfo(rows[SetMin({k \in 1..Len(rows) : key(k) = c})],
                     has_sub_category)]

\* The pairs (rules_list, lookup_dict) the loader can return.
load_merchant_config_hybrid(csv) ==
    IF ~csv.exists THEN { <<<<>>, <<>>>> }
    ELSE IF ~csv.has_required THEN { <<<<>>, <<>>>> }
    ELSE {LET rows == CompiledRows([k \in 1..Len(csv.rows) |-> csv.rows[f[k]]])
          IN  <<RulesOf(rows, csv.has_sub_category),
                LookupOf(rows, csv.has_sub_category)>> :
            f \in DescendingOrders(csv.rows)}

lookup_hit_after_regex(name, dict) ==
    /\ name \in DOMAIN dict
    /\ ~\E k \in DOMAIN rules_list : Contains(Fold(name), Fold(rules_list[k].pattern))

\* current_name in lookup_dict
lookup_hit(name, dict) == name \in DOMAIN dict

\* Step 1 of process_merchant_hybrid: the first prefix of the list the name
\* starts with is cut off, and the scan stops there.
StripPrefix(name, prefixes) ==
    LET m == {k \in DOMAIN prefixes : StartsWith(name, prefixes[k])}
    IN  IF m = {} THEN name
        ELSE SubSeq(name, Len(prefixes[SetMin(m)]) + 1, Len(name))

\* rule['pattern'].search(current_name), compiled with re.IGNORECASE.
Search(pattern, name) == Contains(Fold(name), Fold(pattern))

Result(name, info) ==
    [name |-> name, category |-> info.category,
     sub_category |-> info.sub_category, RFM_Exclusion |-> info.RFM_Exclusion]

UnresolvedAsOther(name) ==
    [name |-> name, category |-> "Other", sub_category |-> "",
     RFM_Exclusion |-> FALSE]

Unresolved(name) ==
    [name |-> name, category |-> "Unknown", sub_category |-> "",
     RFM_Exclusion |-> FALSE]

\* The tools at rest, for the specifications of the pipeline.
ResolverIdle ==
    /\ payment_config = <<>>
    /\ merchant_config = <<>>
    /\ payment_prefixes = <<>>
    /\ rules_list = <<>>
    /\ lookup_dict = <<>>
    /\ raw_name = <<>>
    /\ current_name = <<>>
    /\ resolved = <<>>

DateIdle == date_str = <<>> /\ base_year = 0 /\ bill_month = 0 /\ parsed = <<>>

CountryIdle == raw_location = <<>> /\ normalized = <<>>

ReaderIdle ==
    /\ all_lines = <<>>
    /\ header_keyword = NaNText
    /\ scan_i = 0
    /\ found_header = FALSE
    /\ frame = <<>>

RouterIdle ==
    /\ file_list = <<>>
    /\ file_idx = 1
    /\ all_data = <<>>
    /\ final_df = <<>>

ToolsIdle == ResolverIdle /\ DateIdle /\ CountryIdle /\ ReaderIdle /\ RouterIdle

\* The pipeline at rest, for the specifications of the tools.
PipelineIdle ==
    /\ df = <<>>
    /\ entry = <<>>
    /\ config = <<>>
    /\ mask_general = {}
    /\ out = <<>>
    /\ card_rules = <<>>
    /\ rule_idx = 1
    /\ df_card_clean = <<>>
    /\ df_mobile_clean = <<>>
    /\ hits = <<>>
    /\ payment_csv = <<>>
    /\ payment_rules = <<>>
    /\ merchant_csv = <<>>
    /\ merchant_rules = <<>>
    /\ result_csv = <<>>

\* ------------------------------------------------------ parse_date_with_year
\* A calendar date; pd.NaT; the exception raised inside the try block.
Date(y, m, d) == [year |-> y, month |-> m, day |-> d]
NaT == Date(0, 0, 0)
Raised == Date(-1, -1, -1)

\* The number a word of digits stands for, -1 for a word that is none.
IntValue(w) ==
    CASE w = "0" -> 0
      [] w \in {"1", "01"} -> 1
      [] w \in {"2", "02"} -> 2
      [] w = "12" -> 12
      [] w = "13" -> 13
      [] w = "29" -> 29
      [] w = "31" -> 31
      [] w = "40" -> 40
      [] w = "2023" -> 2023
      [] w = "2024" -> 2024
      [] OTHER -> -1

\* int(part): surrounding whitespace is accepted, anything but one word of
\* digits raises ValueError (-1 here).
IntOf(part) ==
    IF Len(Strip(part)) = 1 THEN IntValue(Strip(part)[1]) ELSE -1

\* re.split(r'[/-]', s)
RECURSIVE SplitDate(_)
SplitDate(s) ==
    LET cut == {i \in DOMAIN s : s[i] \in {"/", "-"}}
    IN  IF cut = {} THEN <<s>>
        ELSE <<SubSeq(s, 1, SetMin(cut) - 1)>>
                 \o SplitDate(SubSeq(s, SetMin(cut) + 1, Len(s)))

IsLeap(y) == (y % 4 = 0 /\ y % 100 # 0) \/ y % 400 = 0

DaysIn(y, m) ==
    IF m = 2 THEN (IF IsLeap(y) THEN 29 ELSE 28)
    ELSE IF m \in {4, 6, 9, 11} THEN 30 ELSE 31

ValidDate(y, m, d) ==
    y \in 1..9999 /\ m \in 1..12 /\ d >= 1 /\ d <= DaysIn(y, m)

\* pd.Timestamp(year=, month=, day=): raises on a date that does not exist.
Timestamp(y, m, d) == IF ValidDate(y, m, d) THEN Date(y, m, d) ELSE Raised

\* pd.to_datetime(s, errors='coerce') of a token of three parts: the year
\* first, or the year last with the month before the day and, failing that,
\* the day before the month; everything else is NaT.
to_datetime(parts) ==
    LET a == IntOf(parts[1])
        b == IntOf(parts[2])
        c == IntOf(parts[3])
    IN  IF a >= 1000 /\ ValidDate(a, b, c) THEN Date(a, b, c)
        ELSE IF c >= 1000 /\ a >= 0 /\ ValidDate(c, a, b) THEN Date(c, a, b)
        ELSE IF c >= 1000 /\ a >= 0 /\ ValidDate(c, b, a) THEN Date(c, b, a)
        ELSE NaT

final_year_as_billed(year, bmonth, month) == year

\* Lines 99..103: the year across the turn of the year.
final_year(year, bmonth, month) ==
    LET december == IF bmonth = 1 /\ month = 12 THEN year - 1 ELSE year
    IN  IF bmonth = 12 /\ month = 1 THEN december + 1 ELSE december

\* The body of the try block.
ParseParts(s, year, bmonth) ==
    LET parts == SplitDate(s) IN
    IF Len(parts) = 2
    THEN IF IntOf(parts[1]) < 0 \/ IntOf(parts[2]) < 0 THEN Raised
         ELSE Timestamp(final_year(year, bmonth, IntOf(parts[1])),
                        IntOf(parts[1]), IntOf(parts[2]))
    ELSE IF Len(parts) = 3 THEN to_datetime(parts)
    ELSE NaT

Uncaught(value) == value

\* except Exception: return pd.NaT
Caught(value) == IF value = Raised THEN NaT ELSE value

\* parse_date_with_year, lines 90..92: null and the placeholder tokens.
ParseDateGuard ==
    /\ pc = "date_guard"
    /\ IF \/ date_str = NaNText
          \/ Strip(date_str) \in {<<"(null)">>, <<"n", "a", "n">>, EmptyText}
       THEN parsed' = NaT /\ pc' = "date_done"
       ELSE parsed' = parsed /\ pc' = "date_parts"
    /\ UNCHANGED <<pipelineVars, resolverLocals, countryLocals, readerLocals,
                   routerLocals, date_str, base_year, bill_month>>

\* Lines 93..111: the try block and its except branch.
ParseDateParts ==
    /\ pc = "date_parts"
    /\ LET value == Caught(ParseParts(Strip(date_str), base_year, bill_month))
       IN  IF value = Raised
           THEN parsed' = parsed /\ pc' = "date_raised"
           ELSE parsed' = value /\ pc' = "date_done"
    /\ UNCHANGED <<pipelineVars, resolverLocals, countryLocals, readerLocals,
                   routerLocals, date_str, base_year, bill_month>>

\* One call of normalize_country_code (df[COL_LOCATION].apply).
NormalizeCountry ==
    /\ pc = "normalize"
    /\ normalized' = normalize_country_code(raw_location)
    /\ pc' = "normalize_done"
    /\ UNCHANGED <<pipelineVars, resolverLocals, dateLocals, readerLocals,
                   routerLocals, raw_location>>

AssembleLocation ==
    /\ pc = "assemble"
    /\ df' = DefaultForeignCurrency(ClearDomestic(NormalizeLocations(df)))
    /\ pc' = "write_result"
    /\ UNCHANGED <<entry, config, mask_general, out, cardLocals, channelLocals,
                   pipeLocals, toolLocals>>

WriteResult ==
    /\ pc = "write_result"
    /\ result_csv' = df
    /\ pc' = "load_payment_rules"
    /\ UNCHANGED <<df, entry, config, mask_general, out, cardLocals,
                   channelLocals, merchant_csv, merchant_rules, toolLocals>>

LoadPaymentRules ==
    /\ pc = "load_payment_rules"
    /\ payment_rules' \in load_payment_rules(payment_csv)
    /\ pc' = "load_merchant_rules"
    /\ UNCHANGED <<df, entry, config, mask_general, out, cardLocals,
                   payment_csv, pipeLocals, toolLocals>>

LoadMerchantRules ==
    /\ pc = "load_merchant_rules"
    /\ merchant_rules' \in load_merchant_regex_rules(merchant_csv)
    /\ pc' = "read_input"
    /\ UNCHANGED <<df, entry, config, mask_general, out, cardLocals,
                   channelLocals, merchant_csv, result_csv, toolLocals>>

ReadInput ==
    /\ pc = "read_input"
    /\ df' = [i \in DOMAIN result_csv |-> ReadRow(result_csv[i])]
    /\ entry' = df'
    /\ pc' = "card_mapping"
    /\ UNCHANGED <<config, mask_general, out, cardLocals, channelLocals,
                   pipeLocals, toolLocals>>

EsunEpoint ==
    /\ pc = "esun_epoint"
    /\ df' = process_esun_epoint(df)
    /\ pc' = "clean_merchant"
    /\ UNCHANGED <<entry, config, mask_general, out, cardLocals, channelLocals,
                   pipeLocals, toolLocals>>

CleanMerchantBegin ==
    /\ pc = "clean_merchant"
    /\ rule_idx' = 1
    /\ entry' = df
    /\ pc' = IF Len(merchant_rules) = 0 THEN "classify_payment"
             ELSE "clean_merchant_rule"
    /\ UNCHANGED <<df, config, mask_general, out, card_rules, df_card_clean,
                   df_mobile_clean, hits, channelLocals, pipeLocals, toolLocals>>

CleanMerchantRule ==
    /\ pc = "clean_merchant_rule"
    /\ df' = ApplyMerchantRule(df, merchant_rules[rule_idx])
    /\ rule_idx' = rule_idx + 1
    /\ pc' = IF rule_idx = Len(merchant_rules) THEN "classify_payment"
             ELSE "clean_merchant_rule"
    /\ UNCHANGED <<entry, config, mask_general, out, card_rules, df_card_clean,
                   df_mobile_clean, hits, channelLocals, pipeLocals, toolLocals>>

CardMappingBegin ==
    /\ pc = "card_mapping"
    /\ df' = [i \in DOMAIN df |-> [df[i] EXCEPT !.payment_prefix = EmptyText]]
    /\ card_rules' = [k \in DOMAIN card_rules |-> StripRule(card_rules[k])]
    /\ hits' = [i \in DOMAIN df |-> {}]
    /\ df_card_clean' = card_clean(df)
    /\ df_mobile_clean' = mobile_clean(df)
    /\ rule_idx' = 1
    /\ pc' = IF Len(card_rules) = 0 THEN "cleanup_cathay" ELSE "card_rule"
    /\ entry' = df
    /\ UNCHANGED <<config, mask_general, out, channelLocals, pipeLocals, toolLocals>>

CardRule ==
    /\ pc = "card_rule"
    /\ LET r == CardRuleAt(card_rules, rule_idx)
           mask == rule_mask(r, df_card_clean, df_mobile_clean)
       IN  /\ df' = ApplyCardRule(df, r, mask)
           /\ hits' = [i \in DOMAIN hits |->
                          IF i \in mask THEN hits[i] \cup {rule_idx} ELSE hits[i]]
    /\ rule_idx' = rule_idx + 1
    /\ pc' = IF rule_idx = Len(card_rules) THEN "cleanup_cathay" ELSE "card_rule"
    /\ UNCHANGED <<entry, config, mask_general, out, card_rules,
                   df_card_clean, df_mobile_clean, channelLocals, pipeLocals, toolLocals>>

CleanupCathay ==
    /\ pc = "cleanup_cathay"
    /\ df' = cleanup_cathay_remaining(df)
    /\ pc' = "identify"
    /\ UNCHANGED <<entry, config, mask_general, out, cardLocals, channelLocals, pipeLocals, toolLocals>>

IdentifyBegin ==
    /\ pc = "identify"
    /\ rule_idx' = 1
    /\ pc' = IF Len(payment_rules) = 0 THEN "esun_epoint" ELSE "identify_rule"
    /\ entry' = df
    /\ UNCHANGED <<df, config, mask_general, out, card_rules,
                   df_card_clean, df_mobile_clean, hits, channelLocals, pipeLocals, toolLocals>>

IdentifyRule ==
    /\ pc = "identify_rule"
    /\ IF ChannelRuleRaises(payment_rules[rule_idx])
       THEN /\ pc' = "refine_raised"
            /\ UNCHANGED <<df, rule_idx>>
       ELSE /\ df' = ApplyChannelRule(df, payment_rules[rule_idx])
            /\ rule_idx' = rule_idx + 1
            /\ pc' = IF rule_idx = Len(payment_rules) THEN "esun_epoint"
                     ELSE "identify_rule"
    /\ UNCHANGED <<entry, config, mask_general, out, card_rules,
                   df_card_clean, df_mobile_clean, hits, channelLocals, pipeLocals, toolLocals>>

ClassifyPayment ==
    /\ pc = "classify_payment"
    /\ df' = StagePayment(df, config)
    /\ entry' = df
    /\ pc' = "classify_credit"
    /\ UNCHANGED <<config, mask_general, out, cardLocals, channelLocals, pipeLocals, toolLocals>>

ClassifyCredit ==
    /\ pc = "classify_credit"
    /\ df' = StageCredit(df, config)
    /\ pc' = "classify_refund"
    /\ UNCHANGED <<entry, config, mask_general, out, cardLocals, channelLocals, pipeLocals, toolLocals>>

ClassifyRefund ==
    /\ pc = "classify_refund"
    /\ df' = StageRefund(df)
    /\ pc' = "classify_fee"
    /\ UNCHANGED <<entry, config, mask_general, out, cardLocals, channelLocals, pipeLocals, toolLocals>>

ClassifyFee ==
    /\ pc = "classify_fee"
    /\ df' = StageFee(df, config)
    /\ pc' = "classify_zero"
    /\ UNCHANGED <<entry, config, mask_general, out, cardLocals, channelLocals, pipeLocals, toolLocals>>

ClassifyZero ==
    /\ pc = "classify_zero"
    /\ df' = StageZero(df)
    /\ pc' = "classify_general"
    /\ UNCHANGED <<entry, config, mask_general, out, cardLocals, channelLocals, pipeLocals, toolLocals>>

ClassifyGeneral ==
    /\ pc = "classify_general"
    /\ mask_general' = MaskGeneral(df)
    /\ IF mask_general' # {}
       THEN /\ df' = StageGeneralDefault(df, mask_general')
            /\ pc' = "classify_foreign"
       ELSE /\ df' = df
            /\ pc' = "final_prefixes"
    /\ UNCHANGED <<entry, config, out, cardLocals, channelLocals, pipeLocals, toolLocals>>

ClassifyForeign ==
    /\ pc = "classify_foreign"
    /\ IF foreign_indices(df, mask_general) # {}
       THEN /\ df' = StageForeignDiff(df, mask_general)
            /\ pc' = "classify_same_twd"
       ELSE /\ df' = df
            /\ pc' = "final_prefixes"
    /\ UNCHANGED <<entry, config, mask_general, out, cardLocals, channelLocals, pipeLocals, toolLocals>>

ClassifySameTWD ==
    /\ pc = "classify_same_twd"
    /\ IF same_indices(df, foreign_indices(df, mask_general)) # {}
       THEN /\ df' = StageSameTWD(df, mask_general)
            /\ pc' = "classify_same_dual"
       ELSE /\ df' = df
            /\ pc' = "final_prefixes"
    /\ UNCHANGED <<entry, config, mask_general, out, cardLocals, channelLocals, pipeLocals, toolLocals>>

ClassifySameDual ==
    /\ pc = "classify_same_dual"
    /\ df' = StageSameDual(df, mask_general)
    /\ pc' = "final_prefixes"
    /\ UNCHANGED <<entry, config, mask_general, out, cardLocals, channelLocals, pipeLocals, toolLocals>>

ApplyFinalPrefixes ==
    /\ pc = "final_prefixes"
    /\ df' = apply_final_prefixes(df)
    /\ pc' = "output"
    /\ UNCHANGED <<entry, config, mask_general, out, cardLocals, channelLocals, pipeLocals, toolLocals>>

Output ==
    /\ pc = "output"
    /\ out' = df_final(df)
    /\ pc' = "done"
    /\ UNCHANGED <<df, entry, config, mask_general, cardLocals, channelLocals, pipeLocals, toolLocals>>

\* ------------------------------------------------------------------ inputs
\* db_to_RFManalysis.main, steps 1: both settings files are loaded; a file
\* that exists but cannot be read raises out of main; without merchant
\* rules main returns.
RfmLoadConfig ==
    /\ pc = "rfm_load"
    /\ IF \/ payment_config.exists /\ ~payment_config.readable
          \/ merchant_config.exists /\ ~merchant_config.readable
       THEN /\ pc' = "rfm_raised"
            /\ UNCHANGED <<payment_prefixes, rules_list, lookup_dict>>
       ELSE /\ payment_prefixes' = load_payment_prefixes(payment_config)
            /\ \E loaded \in load_merchant_config_hybrid(merchant_config) :
                  /\ rules_list' = loaded[1]
                  /\ lookup_dict' = loaded[2]
            /\ pc' = IF rules_list' = <<>> THEN "rfm_halted" ELSE "resolve_strip"
    /\ UNCHANGED <<pipelineVars, dateLocals, countryLocals, readerLocals,
                   routerLocals, payment_config, merchant_config,
                   raw_name, current_name, resolved>>

\* process_merchant_hybrid, to the end of step 1.
ResolveStrip ==
    /\ pc = "resolve_strip"
    /\ IF raw_name = NaNText
       THEN /\ resolved' = [name |-> <<"Unknown">>, category |-> "Unknown",
                            sub_category |-> "", RFM_Exclusion |-> FALSE]
            /\ pc' = "resolve_done"
            /\ UNCHANGED current_name
       ELSE /\ current_name' = Strip(StripPrefix(Strip(raw_name), payment_prefixes))
            /\ pc' = "resolve_lookup"
            /\ UNCHANGED resolved
    /\ UNCHANGED <<pipelineVars, dateLocals, countryLocals, readerLocals,
                   routerLocals, payment_config, merchant_config,
                   payment_prefixes, rules_list, lookup_dict, raw_name>>

\* Step 2: the exact lookup.
ResolveLookup ==
    /\ pc = "resolve_lookup"
    /\ IF lookup_hit(current_name, lookup_dict)
       THEN /\ resolved' = Result(current_name, lookup_dict[current_name])
            /\ pc' = "resolve_done"
       ELSE /\ pc' = "resolve_regex"
            /\ UNCHANGED resolved
    /\ UNCHANGED <<pipelineVars, dateLocals, countryLocals, readerLocals,
                   routerLocals, payment_config, merchant_config,
                   payment_prefixes, rules_list, lookup_dict, raw_name,
                   current_name>>

\* Step 3: the scan of the regex rules, the first match returns.
ResolveRegex ==
    /\ pc = "resolve_regex"
    /\ LET m == {k \in DOMAIN rules_list : Search(rules_list[k].pattern, current_name)}
       IN  IF m # {}
           THEN /\ resolved' = Result(rules_list[SetMin(m)].info.name,
                                      rules_list[SetMin(m)].info)
                /\ pc' = "resolve_done"
           ELSE /\ pc' = "resolve_give_up"
                /\ UNCHANGED resolved
    /\ UNCHANGED <<pipelineVars, dateLocals, countryLocals, readerLocals,
                   routerLocals, payment_config, merchant_config,
                   payment_prefixes, rules_list, lookup_dict, raw_name,
                   current_name>>

\* Step 4.
ResolveGiveUp ==
    /\ pc = "resolve_give_up"
    /\ resolved' = Unresolved(IF current_name # EmptyText THEN current_name
                              ELSE raw_name)
    /\ pc' = "resolve_done"
    /\ UNCHANGED <<pipelineVars, dateLocals, countryLocals, readerLocals,
                   routerLocals, payment_config, merchant_config,
                   payment_prefixes, rules_list, lookup_dict, raw_name,
                   current_name>>

NoPaymentCsv ==
    [exists |-> FALSE, readable |-> FALSE, has_priority |-> FALSE, rules |-> <<>>]
NoMerchantCsv ==
    [exists |-> FALSE, readable |-> FALSE, has_priority |-> FALSE, rules |-> <<>>]

\* Keyword lists of mapping_rules.yaml: all three configured, or none.
Configs ==
    { [payment_keywords |-> << <<"p">> >>,
       credit_keywords |-> << <<"c">> >>,
       fee_keywords |-> << <<"f">> >>],
      [payment_keywords |-> <<>>,
       credit_keywords |-> <<>>,
       fee_keywords |-> <<>>] }

\* Merchant texts: no keyword, payment, payment with an exclusion word,
\* credit, fee, payment and credit together.
MerchantTexts ==
    { <<"x">>, <<"P">>, <<"P", "daishou">>, <<"C">>, <<"f">>, <<"P", "C">> }

Amounts == {NaN, Num(-50), Num(0), Num(50)}

\* Location and currency columns as the assembly stage leaves them: a home
\* row without transaction currency, foreign rows with one.
LocCur ==
    { [loc |-> TW, cur |-> "", camt |-> NaN, pcur |-> "TWD"],
      [loc |-> JP, cur |-> "JPY", camt |-> Num(100), pcur |-> "TWD"],
      [loc |-> JP, cur |-> "TWD", camt |-> Num(100), pcur |-> "TWD"],
      [loc |-> JP, cur |-> "TWD", camt |-> NaN, pcur |-> "TWD"],
      [loc |-> JP, cur |-> "JPY", camt |-> Num(100), pcur |-> "JPY"] }

\* Transaction_Type, Mobile_Payment and the pending prefix on entry.  etl.py
\* never writes Transaction_Type: a non-empty value on entry is a label the
\* bank's own export carried.
TypeMobile ==
    { [type |-> "", mobile |-> "", prefix |-> EmptyText],
      [type |-> "", mobile |-> "LINE Pay", prefix |-> <<"LP-">>],
      [type |-> "bank_label", mobile |-> "LINE Pay", prefix |-> <<"LP-">>] }

ClassifyRow(m, a, lc, tm) ==
    [Bank_Name |-> "esun_bank",
     Card_Type |-> "VISA",
     Card_No |-> <<"1">>,
     Merchant |-> m,
     Merchant_Location |-> lc.loc,
     Consumption_Place |-> "TOKYO",
     Transaction_Type |-> tm.type,
     Mobile_Payment |-> tm.mobile,
     Currency_Type |-> lc.cur,
     Currency_Amount |-> lc.camt,
     Payment_Currency |-> lc.pcur,
     Payment_Amount |-> a,
     payment_prefix |-> tm.prefix]

ClassifyRows ==
    {ClassifyRow(m, a, lc, tm) :
        m \in MerchantTexts, a \in Amounts, lc \in LocCur, tm \in TypeMobile}

Ledgers(rows) == UNION {[1..n -> rows] : n \in 1..MaxRows}

InitClassify ==
    /\ pc = "classify_payment"
    /\ df \in Ledgers(ClassifyRows)
    /\ entry = df
    /\ config \in Configs
    /\ mask_general = {}
    /\ out = <<>>
    /\ card_rules = <<>>
    /\ rule_idx = 1
    /\ df_card_clean = <<>>
    /\ df_mobile_clean = <<>>
    /\ hits = <<>>
    /\ payment_csv = NoPaymentCsv
    /\ payment_rules = <<>>
    /\ merchant_csv = NoMerchantCsv
    /\ merchant_rules = <<>>
    /\ result_csv = <<>>
    /\ ToolsIdle

NextClassify ==
    \/ ClassifyPayment
    \/ ClassifyCredit
    \/ ClassifyRefund
    \/ ClassifyFee
    \/ ClassifyZero
    \/ ClassifyGeneral
    \/ ClassifyForeign
    \/ ClassifySameTWD
    \/ ClassifySameDual
    \/ ApplyFinalPrefixes
    \/ Output

SpecClassify == InitClassify /\ [][NextClassify]_vars

\* Card-mapping rules.  A shape says which fragment a rule targets, which
\* channel tag it names and which of its three other fields are filled; the
\* values it writes carry the rule's position, so that two rules never
\* write the same card type, prefix or replacement.
TypeName == <<"CARD-A", "CARD-B", "CARD-C">>
PrefixName == << <<"pa-">>, <<"pb-">>, <<"pc-">> >>
ReplaceNo == << <<"7">>, <<"8">>, <<"9">> >>

RuleFragments == { <<"1">>, <<"1", " ", "/", "2">> }
RuleMobiles == {"", "ApplePay"}
RuleFills ==
    { [type |-> TRUE, prefix |-> TRUE, replace |-> TRUE],
      [type |-> FALSE, prefix |-> FALSE, replace |-> FALSE],
      [type |-> FALSE, prefix |-> TRUE, replace |-> TRUE] }

RuleShapes ==
    {[card_no |-> c, mobile |-> m, fill |-> f] :
        c \in RuleFragments, m \in RuleMobiles, f \in RuleFills}
    \cup {[card_no |-> <<" ">>, mobile |-> "ApplePay",
           fill |-> [type |-> TRUE, prefix |-> TRUE, replace |-> TRUE]],
          [card_no |-> <<"1">>, mobile |-> "GooglePay",
           fill |-> [type |-> TRUE, prefix |-> TRUE, replace |-> TRUE]]}

MkRule(k, sh) ==
    [card_no |-> sh.card_no,
     mobile |-> sh.mobile,
     card_type |-> IF sh.fill.type THEN TypeName[k] ELSE "",
     prefix |-> IF sh.fill.prefix THEN PrefixName[k] ELSE EmptyText,
     replace |-> IF sh.fill.replace THEN ReplaceNo[k] ELSE EmptyText]

CardRuleLists ==
    UNION {{[k \in 1..n |-> MkRule(k, sh[k])] : sh \in [1..n -> RuleShapes]} :
            n \in 0..MaxCardRules}

CardBank ==
    { [card |-> <<"1">>, bank |-> "esun_bank"],
      [card |-> <<"1", " ", "/", "2">>, bank |-> "cube_bank"],
      [card |-> <<"1", "/", "2">>, bank |-> "esun_bank"],
      [card |-> EmptyText, bank |-> "esun_bank"] }

CardRow(cb, mob) ==
    [Bank_Name |-> cb.bank,
     Card_Type |-> "",
     Card_No |-> cb.card,
     Merchant |-> <<"x">>,
     Merchant_Location |-> TW,
     Consumption_Place |-> "",
     Transaction_Type |-> "",
     Mobile_Payment |-> mob,
     Currency_Type |-> "",
     Currency_Amount |-> NaN,
     Payment_Currency |-> "TWD",
     Payment_Amount |-> Num(50),
     payment_prefix |-> EmptyText]

CardRows == {CardRow(cb, mob) : cb \in CardBank, mob \in {"", "ApplePay"}}

InitCard ==
    /\ pc = "card_mapping"
    /\ df \in Ledgers(CardRows)
    /\ entry = df
    /\ card_rules \in CardRuleLists
    /\ rule_idx = 1
    /\ df_card_clean = <<>>
    /\ df_mobile_clean = <<>>
    /\ hits = <<>>
    /\ config \in {c \in Configs : c.payment_keywords = <<>>}
    /\ mask_general = {}
    /\ out = <<>>
    /\ payment_csv = NoPaymentCsv
    /\ payment_rules = <<>>
    /\ merchant_csv = NoMerchantCsv
    /\ merchant_rules = <<>>
    /\ result_csv = <<>>
    /\ ToolsIdle

NextCard ==
    \/ CardMappingBegin
    \/ CardRule
    \/ CleanupCathay

SpecCard == InitCard /\ [][NextCard]_vars

\* card_mapping.csv files whose rules target a card number or the number
\* the first rule of a file puts in its place.
ChainFragments == { <<"1">>, ReplaceNo[1] }
ChainFills ==
    { [type |-> TRUE, prefix |-> TRUE, replace |-> TRUE],
      [type |-> FALSE, prefix |-> FALSE, replace |-> FALSE] }

ChainShapes ==
    {[card_no |-> c, mobile |-> m, fill |-> f] :
        c \in ChainFragments, m \in RuleMobiles, f \in ChainFills}

ChainRuleLists ==
    UNION {{[k \in 1..n |-> MkRule(k, sh[k])] : sh \in [1..n -> ChainShapes]} :
            n \in 0..MaxCardRules}

InitChain ==
    /\ pc = "card_mapping"
    /\ df \in Ledgers(CardRows)
    /\ entry = df
    /\ card_rules \in ChainRuleLists
    /\ rule_idx = 1
    /\ df_card_clean = <<>>
    /\ df_mobile_clean = <<>>
    /\ hits = <<>>
    /\ config \in {c \in Configs : c.payment_keywords = <<>>}
    /\ mask_general = {}
    /\ out = <<>>
    /\ payment_csv = NoPaymentCsv
    /\ payment_rules = <<>>
    /\ merchant_csv = NoMerchantCsv
    /\ merchant_rules = <<>>
    /\ result_csv = <<>>
    /\ ToolsIdle

SpecChain == InitChain /\ [][NextCard]_vars

\* Channel rules.  The category and the prefix label a rule writes carry its
\* declared position (decl); a rule may declare no prefix label (NaN).
CategoryName == <<"CHANNEL-A", "CHANNEL-B", "CHANNEL-C">>
LabelName == << <<"ca-">>, <<"cb-">>, <<"cc-">> >>

ChannelPatterns == { <<"L">>, <<"A">>, <<"L", "A">> }
RawPriorities == {Num(10), Num(5), NaN}

ChannelShapes ==
    {[pattern |-> pt, priority |-> pr, label |-> lb] :
        pt \in ChannelPatterns, pr \in RawPriorities, lb \in BOOLEAN}

MkChannelRule(k, sh) ==
    [decl |-> k,
     pattern |-> sh.pattern,
     category |-> CategoryName[k],
     prefix_label |-> IF sh.label THEN LabelName[k] ELSE NaNText,
     priority |-> sh.priority]

ChannelRuleLists ==
    UNION {{[k \in 1..n |-> MkChannelRule(k, sh[k])] : sh \in [1..n -> ChannelShapes]} :
            n \in 0..MaxChannelRules}

PaymentCsvs ==
    {[exists |-> TRUE, readable |-> TRUE, has_priority |-> TRUE, rules |-> rs] : rs \in ChannelRuleLists}
    \cup {[exists |-> TRUE, readable |-> TRUE, has_priority |-> FALSE, rules |-> rs] :
            rs \in {l \in ChannelRuleLists : \A k \in DOMAIN l : l[k].priority = NaN}}
    \cup {NoPaymentCsv}

ChannelMerchants == { <<"L", "A">>, <<"A", "x">>, <<"x">> }

\* Mobile_Payment and pending prefix as card mapping leaves them.
ChannelTags ==
    { [mobile |-> "", prefix |-> EmptyText],
      [mobile |-> "ApplePay", prefix |-> <<"pa-">>] }

ChannelRow(m, t) ==
    [Bank_Name |-> "esun_bank",
     Card_Type |-> "",
     Card_No |-> <<"1">>,
     Merchant |-> m,
     Merchant_Location |-> TW,
     Consumption_Place |-> "",
     Transaction_Type |-> "",
     Mobile_Payment |-> t.mobile,
     Currency_Type |-> "",
     Currency_Amount |-> NaN,
     Payment_Currency |-> "TWD",
     Payment_Amount |-> Num(50),
     payment_prefix |-> t.prefix]

ChannelRows == {ChannelRow(m, t) : m \in ChannelMerchants, t \in ChannelTags}

InitChannel ==
    /\ pc = "identify"
    /\ df \in Ledgers(ChannelRows)
    /\ entry = df
    /\ payment_csv \in PaymentCsvs
    /\ payment_rules \in load_payment_rules(payment_csv)
    /\ rule_idx = 1
    /\ card_rules = <<>>
    /\ df_card_clean = <<>>
    /\ df_mobile_clean = <<>>
    /\ hits = <<>>
    /\ config \in {c \in Configs : c.payment_keywords = <<>>}
    /\ mask_general = {}
    /\ out = <<>>
    /\ merchant_csv = NoMerchantCsv
    /\ merchant_rules = <<>>
    /\ result_csv = <<>>
    /\ ToolsIdle

NextChannel ==
    \/ IdentifyBegin
    \/ IdentifyRule

SpecChannel == InitChannel /\ [][NextChannel]_vars

\* ------------------------------------------------------------ the resolver
\* The payment settings file: missing, unreadable, without the label column,
\* a short label declared before a longer one that starts with it, labels
\* with a missing cell and surrounding blanks, a blank label.
PaymentConfigs ==
    { [exists |-> FALSE, readable |-> FALSE, has_label |-> FALSE, labels |-> <<>>],
      [exists |-> TRUE, readable |-> FALSE, has_label |-> TRUE, labels |-> <<>>],
      [exists |-> TRUE, readable |-> TRUE, has_label |-> FALSE, labels |-> <<>>],
      [exists |-> TRUE, readable |-> TRUE, has_label |-> TRUE,
       labels |-> << <<"L">>, <<"L", "P">> >>],
      [exists |-> TRUE, readable |-> TRUE, has_label |-> TRUE,
       labels |-> << <<"L", "P">>, NaNText, <<" ", "L", " ">> >>],
      [exists |-> TRUE, readable |-> TRUE, has_label |-> TRUE,
       labels |-> << <<" ">>, <<"x">> >>] }

MerchantRow(pt, rp, pr, cat, sub, ex) ==
    [pattern |-> pt, replacement |-> rp, priority |-> pr, category |-> cat,
     sub_category |-> sub, exclusion |-> ex]

\* The merchant settings file: missing, unreadable, without a required
\* column; a name that is the canonical name of one rule and matches the
\* pattern of a rule of higher priority; rules of equal priority with one
\* canonical name, a pattern that does not compile, a missing canonical
\* name and one written with blanks around it.
MerchantConfigs ==
    { [exists |-> FALSE, readable |-> FALSE, has_required |-> FALSE,
       has_sub_category |-> FALSE, rows |-> <<>>],
      [exists |-> TRUE, readable |-> FALSE, has_required |-> TRUE,
       has_sub_category |-> TRUE, rows |-> <<>>],
      [exists |-> TRUE, readable |-> TRUE, has_required |-> FALSE,
       has_sub_category |-> FALSE, rows |-> <<>>],
      [exists |-> TRUE, readable |-> TRUE, has_required |-> TRUE,
       has_sub_category |-> TRUE,
       rows |-> << MerchantRow(<<"q">>, <<"x">>, Num(5), "CAT-B", "SUB-B", "True"),
                   MerchantRow(<<"x">>, <<"S">>, Num(10), "CAT-A", "SUB-A", "False") >>],
      [exists |-> TRUE, readable |-> TRUE, has_required |-> TRUE,
       has_sub_category |-> FALSE,
       rows |-> << MerchantRow(<<"p">>, <<" ", "x", " ">>, NaN, "CAT-A", NaNStr, "TRUE"),
                   MerchantRow(<<"q">>, <<"x">>, NaN, "CAT-B", NaNStr, NaNStr),
                   MerchantRow(<<"(">>, <<"S">>, Num(10), "CAT-C", NaNStr, "False") >>],
      [exists |-> TRUE, readable |-> TRUE, has_required |-> TRUE,
       has_sub_category |-> TRUE,
       rows |-> << MerchantRow(<<"(">>, <<"x">>, Num(10), "CAT-C", "SUB-C", "False"),
                   MerchantRow(<<"x">>, NaNText, Num(5), NaNStr, NaNStr, "False") >>],
      [exists |-> TRUE, readable |-> TRUE, has_required |-> TRUE,
       has_sub_category |-> TRUE,
       rows |-> << MerchantRow(<<"(">>, <<"x">>, Num(10), "CAT-C", "SUB-C", "False") >>] }

\* merchant_name of a row of all_transactions: NULL, empty, blank, names with
\* and without a configured prefix, in either case, with blanks around.
RawNames ==
    { NaNText, EmptyText, <<" ">>, <<"x">>, <<"z">>, <<"P">>, <<"L">>,
      <<"L", "P">>, <<"L", "x">>, <<"L", "P", "x">>, <<"L", "P", "z">>,
      <<"L", " ", "x">>, <<" ", "L", "P", " ", "x", " ">>, <<"L", "L", "x">>,
      <<"x", "L">>, <<"n", "a", "n">>, <<"L", "P", "p", "z">> }

InitResolver ==
    /\ pc = "rfm_load"
    /\ payment_config \in PaymentConfigs
    /\ merchant_config \in MerchantConfigs
    /\ raw_name \in RawNames
    /\ payment_prefixes = <<>>
    /\ rules_list = <<>>
    /\ lookup_dict = <<>>
    /\ current_name = <<>>
    /\ resolved = <<>>
    /\ PipelineIdle
    /\ DateIdle /\ CountryIdle /\ ReaderIdle /\ RouterIdle

NextResolver ==
    \/ RfmLoadConfig
    \/ ResolveStrip
    \/ ResolveLookup
    \/ ResolveRegex
    \/ ResolveGiveUp

SpecResolver == InitResolver /\ [][NextResolver]_vars

\* ------------------------------------------------------------ the date parser
\* The parts of a date token: words of digits, a word with a blank before
\* it, a word that is no number, nothing.
DateParts ==
    { <<"12">>, <<"1">>, <<"01">>, <<"2">>, <<"02">>, <<"13">>, <<"29">>,
      <<"31">>, <<"40">>, <<"0">>, <<"ab">>, <<" ", "1">>, EmptyText }

DateSeparators == {"/", "-"}

\* Date cells of a statement: a missing cell, the placeholders, tokens of
\* one, two, three and four parts.
DateTokens ==
    {NaNText, EmptyText, <<" ">>, <<"(null)">>, <<"n", "a", "n">>, <<" ", "(null)", " ">>}
    \cup DateParts
    \cup {a \o <<x>> \o b : a \in DateParts, x \in DateSeparators, b \in DateParts}
    \cup {<<y, x>> \o a \o <<x>> \o b :
            y \in {"2023", "2024", "ab"}, x \in DateSeparators,
            a \in {<<"02">>, <<"12">>, <<"13">>, <<"ab">>},
            b \in {<<"01">>, <<"29">>, <<"40">>}}
    \cup {a \o <<x>> \o b \o <<x, "2024">> :
            x \in DateSeparators, a \in {<<"02">>, <<"13">>}, b \in {<<"12">>, <<"29">>}}
    \cup {<<"2024", "/", "01", "/", "02", "/", "12">>, <<" ", "12", "/", "31", " ">>}

BillingYears == {2023, 2024}
BillingMonths == {1, 6, 12}

InitDate ==
    /\ pc = "date_guard"
    /\ date_str \in DateTokens
    /\ base_year \in BillingYears
    /\ bill_month \in BillingMonths
    /\ parsed = <<>>
    /\ PipelineIdle
    /\ ResolverIdle /\ CountryIdle /\ ReaderIdle /\ RouterIdle

NextDate ==
    \/ ParseDateGuard
    \/ ParseDateParts

SpecDate == InitDate /\ [][NextDate]_vars

\* ----------------------------------------------------- the country normalizer
LocationSymbols == {"T", "W", "N", "t", "w", "J", "P", " ", "\t", "Z"}

MaxLocationLen == 3

\* Location cells: missing, every text of up to MaxLocationLen symbols, and
\* codes followed by a place name.
LocationTexts ==
    {NaNText, EmptyText}
    \cup UNION {[1..n -> LocationSymbols] : n \in 1..MaxLocationLen}
    \cup { <<"J", "P", "N", " ", "Z">>, <<" ", "t", "w", "n", " ", "Z", " ">>,
           <<"T", "W", "\t", " ", "Z">>, <<"T", "W", "N", "Z">>,
           <<"U", "S", "A">>, <<"I", "R", "L", " ", "Z">>, <<"I", "D", "N">> }

InitCountry ==
    /\ pc = "normalize"
    /\ raw_location \in LocationTexts
    /\ normalized = <<>>
    /\ PipelineIdle
    /\ ResolverIdle /\ DateIdle /\ ReaderIdle /\ RouterIdle

NextCountry == NormalizeCountry

SpecCountry == InitCountry /\ [][NextCountry]_vars

\* ------------------------------------------------------- the smart reader
\* smart_read_csv(filepath, encoding, header_keyword), one loop iteration
\* per step.  A file is whether it can be opened and its lines; a frame is
\* what the function returns: None, or the table read with the line of
\* index `from` as column line and the following lines as records.
\* Indices count from 0 as enumerate does; line i is all_lines[i + 1].
File(readable, lines) == [readable |-> readable, lines |-> lines]

None == [ok |-> FALSE, from |-> 0, columns |-> <<>>, records |-> <<>>]

\* The last index the loop looks at: `if i > 50: break`.
ScanLimit == 50

\* pd.read_csv of the lines from index i on; nothing to parse raises
\* EmptyDataError, which the except branch turns into None.
read_csv(lines, i) ==
    IF i >= Len(lines) THEN None
    ELSE [ok |-> TRUE, from |-> i, columns |-> lines[i + 1],
          records |-> SubSeq(lines, i + 2, Len(lines))]

\* `header_keyword and header_keyword in line`: None and '' are false.
KeywordIn(keyword, line) ==
    /\ keyword # NaNText
    /\ keyword # EmptyText
    /\ Contains(line, keyword)

\* open() and readlines(); a file that cannot be opened raises and the
\* function returns None.
ReadLines(file) ==
    /\ pc = "read_open"
    /\ IF file.readable
       THEN /\ all_lines' = file.lines
            /\ pc' = "read_scan"
            /\ frame' = frame
       ELSE /\ frame' = None
            /\ pc' = "read_done"
            /\ all_lines' = all_lines
    /\ UNCHANGED <<pipelineVars, resolverLocals, dateLocals, countryLocals,
                   routerLocals, header_keyword, scan_i, found_header>>

\* One pass of the for loop over enumerate(all_lines).
ScanLine ==
    /\ pc = "read_scan"
    /\ IF scan_i >= Len(all_lines) \/ scan_i > ScanLimit
       THEN /\ pc' = "read_parse"
            /\ UNCHANGED <<scan_i, found_header>>
       ELSE IF KeywordIn(header_keyword, all_lines[scan_i + 1])
            THEN /\ found_header' = TRUE
                 /\ pc' = "read_parse"
                 /\ scan_i' = scan_i
            ELSE /\ scan_i' = scan_i + 1
                 /\ UNCHANGED <<pc, found_header>>
    /\ UNCHANGED <<pipelineVars, resolverLocals, dateLocals, countryLocals,
                   routerLocals, all_lines, header_keyword, frame>>

\* The two returns: from the keyword line, or the whole file with header=0.
ParseLines ==
    /\ pc = "read_parse"
    /\ frame' = IF found_header THEN read_csv(all_lines, scan_i)
                ELSE read_csv(all_lines, 0)
    /\ pc' = "read_done"
    /\ UNCHANGED <<pipelineVars, resolverLocals, dateLocals, countryLocals,
                   routerLocals, all_lines, header_keyword, scan_i,
                   found_header>>

\* Lines of the statements: a preamble line, the column line that carries
\* the keyword, a record line.
PreambleLine == <<"n", "o", "t", "e">>
ColumnLine == <<"d", "a", "t", "e", ",", "a", "m", "t">>
HeaderKeyword == <<"d", "a", "t", "e">>

\* n lines, the column line at the line numbers of K (counted from 1).
LinesWith(n, K) ==
    [i \in 1..n |-> IF i \in K THEN ColumnLine ELSE PreambleLine]

\* Statement files: empty, short, and long ones whose column line is around
\* the end of the scanned part, or absent, or repeated.
StatementFiles ==
    {File(FALSE, <<>>)}
    \cup {File(TRUE, LinesWith(n, {})) : n \in {0, 1, 3, 53}}
    \cup {File(TRUE, LinesWith(3, {k})) : k \in {1, 2, 3}}
    \cup {File(TRUE, LinesWith(53, K)) :
            K \in {{1}, {49}, {50}, {51}, {52}, {53}, {50, 52}, {51, 53},
                   {52, 53}}}

HeaderKeywords == {HeaderKeyword, NaNText, EmptyText}

InitReader ==
    /\ pc = "read_open"
    /\ all_lines = <<>>
    /\ header_keyword \in HeaderKeywords
    /\ scan_i = 0
    /\ found_header = FALSE
    /\ frame = <<>>
    /\ PipelineIdle
    /\ ResolverIdle /\ DateIdle /\ CountryIdle /\ RouterIdle

NextReader ==
    \/ \E file \in StatementFiles : ReadLines(file)
    \/ ScanLine
    \/ ParseLines

SpecReader == InitReader /\ [][NextReader]_vars

\* --------------------------------------------------------------- the router
\* etl.py __main__ and process_bank_file.  A source file is its name (whether
\* the extension is one of csv, xlsx, xls, html and the name has no leading
\* dot, and which bank keyword it carries), whether it can be opened, its
\* lines, and for a markup file whether the lines stand in a table.  The
\* names of the model carry no year and month, so base_year and bill_month
\* keep their defaults.  Of a row the model carries Bank_Name,
\* Transaction_Date and Merchant.
DefaultBaseYear == 2024
DefaultBillMonth == 1

SourceFile(listed, bank, readable, table, lines) ==
    [listed |-> listed, bank |-> bank, readable |-> readable,
     table |-> table, lines |-> lines]

\* banks_config.yaml: the profile of a bank, or no profile.  The file is not
\* part of the sources; the model has a profile of each kind and none for
\* sinopac_bank.
NoProfile == [file_type |-> "none", header_keyword |-> NaNText]

BanksConfig(bank_id) ==
    CASE bank_id = "esun_bank" -> [file_type |-> "csv", header_keyword |-> HeaderKeyword]
      [] bank_id = "ctbc_bank" -> [file_type |-> "csv", header_keyword |-> HeaderKeyword]
      [] bank_id = "hncb_bank" -> [file_type |-> "html", header_keyword |-> HeaderKeyword]
      [] bank_id = "cube_bank" -> [file_type |-> "excel", header_keyword |-> NaNText]
      [] OTHER -> NoProfile

\* An exception that leaves a function.
RaisedFrame == [ok |-> FALSE, from |-> -1, columns |-> <<>>, records |-> <<>>]

\* try / except Exception around an ingest.
Unguarded(value) == value

Guarded(value) == IF value = RaisedFrame THEN None ELSE value

\* smart_read_csv as a function of the file: the scan stops at the first
\* line of index 0..ScanLimit that carries the keyword.
smart_read_csv(file, keyword) ==
    IF ~file.readable THEN Guarded(RaisedFrame)
    ELSE LET hit == {i \in 0..ScanLimit :
                        /\ i < Len(file.lines)
                        /\ KeywordIn(keyword, file.lines[i + 1])}
         IN  IF hit # {} THEN read_csv(file.lines, SetMin(hit))
             ELSE read_csv(file.lines, 0)

\* Path A: BeautifulSoup, soup.find of the keyword, the parent table,
\* pd.read_html with header=0.  Without keyword node or table df stays None.
read_hncb(file, keyword) ==
    IF ~file.readable \/ keyword = NaNText THEN Guarded(RaisedFrame)
    ELSE IF /\ \E i \in DOMAIN file.lines : Contains(file.lines[i], keyword)
            /\ file.table
         THEN read_csv(file.lines, 0)
         ELSE None

\* Path C: pd.read_excel in try / except that leaves df None.
read_excel(file) ==
    IF ~file.readable THEN Guarded(RaisedFrame) ELSE read_csv(file.lines, 0)

\* Node 1.
Ingest(file, bank_id, profile) ==
    IF bank_id = "hncb_bank" THEN read_hncb(file, profile.header_keyword)
    ELSE IF profile.file_type = "csv" \/ bank_id = "esun_bank"
         THEN smart_read_csv(file, profile.header_keyword)
         ELSE IF profile.file_type = "excel" THEN read_excel(file)
              ELSE None

\* The cells of a line.
RECURSIVE Cells(_)
Cells(line) ==
    LET cut == {i \in DOMAIN line : line[i] = ","}
    IN  IF cut = {} THEN <<line>>
        ELSE <<SubSeq(line, 1, SetMin(cut) - 1)>>
                 \o Cells(SubSeq(line, SetMin(cut) + 1, Len(line)))

\* parse_date_with_year as a function.
parse_date_with_year(s, year, bmonth) ==
    IF s = NaNText \/ Strip(s) \in {<<"(null)">>, <<"n", "a", "n">>, EmptyText}
    THEN NaT
    ELSE Caught(ParseParts(Strip(s), year, bmonth))

\* Nodes 2 to 5 on one record: with the columns of the profile the date is
\* parsed; with other columns nothing is mapped and the row keeps only the
\* bank name among the ledger's columns.
CleanRow(bank_id, columns, line) ==
    IF columns = ColumnLine /\ Len(Cells(line)) >= 2
    THEN [Bank_Name |-> bank_id,
          Transaction_Date |->
              parse_date_with_year(Cells(line)[1], DefaultBaseYear, DefaultBillMonth),
          Merchant |-> Cells(line)[2],
          mapped |-> TRUE]
    ELSE [Bank_Name |-> bank_id, Transaction_Date |-> NaT,
          Merchant |-> NaNText, mapped |-> columns = ColumnLine]

\* dropna(subset=[Transaction_Date]) when the column exists.
RECURSIVE DropUndated(_)
DropUndated(rows) ==
    IF rows = <<>> THEN <<>>
    ELSE IF rows[1].mapped /\ rows[1].Transaction_Date = NaT
         THEN DropUndated(Tail(rows))
         ELSE <<rows[1]>> \o DropUndated(Tail(rows))

\* process_bank_file: None, the exception that left it, or the frame.
process_bank_file(file, bank_id) ==
    LET profile == BanksConfig(bank_id)
        ingested == IF profile = NoProfile THEN None
                    ELSE Ingest(file, bank_id, profile)
    IN  IF ingested = RaisedFrame THEN RaisedFrame
        ELSE IF ~ingested.ok \/ ingested.records = <<>> THEN None
        ELSE [ok |-> TRUE, from |-> ingested.from, columns |-> ingested.columns,
              records |-> DropUndated(
                  [i \in DOMAIN ingested.records |->
                      CleanRow(bank_id, ingested.columns, ingested.records[i])])]

\* One pass of the loop over file_list.
RouteFile ==
    /\ pc = "route_scan"
    /\ file_idx <= Len(file_list)
    /\ LET file == file_list[file_idx]
       IN  IF ~file.listed \/ file.bank = ""
           THEN /\ all_data' = all_data
                /\ pc' = pc
           ELSE LET cleaned_df == process_bank_file(file, file.bank)
                IN  IF cleaned_df = RaisedFrame
                    THEN /\ pc' = "route_raised"
                         /\ all_data' = all_data
                    ELSE /\ pc' = pc
                         /\ all_data' = IF cleaned_df # None
                                        THEN Append(all_data, cleaned_df.records)
                                        ELSE all_data
    /\ file_idx' = file_idx + 1
    /\ UNCHANGED <<pipelineVars, resolverLocals, dateLocals, countryLocals,
                   readerLocals, file_list, final_df>>

RECURSIVE concat(_)
concat(frames) ==
    IF frames = <<>> THEN <<>> ELSE frames[1] \o concat(Tail(frames))

\* After the loop: the ledger is written when a frame was collected.
WriteLedger ==
    /\ pc = "route_scan"
    /\ file_idx > Len(file_list)
    /\ final_df' = IF all_data # <<>>
                   THEN [written |-> TRUE, rows |-> concat(all_data)]
                   ELSE [written |-> FALSE, rows |-> <<>>]
    /\ pc' = "route_done"
    /\ UNCHANGED <<pipelineVars, resolverLocals, dateLocals, countryLocals,
                   readerLocals, file_list, file_idx, all_data>>

\* Record lines: a date and a merchant.
RecordLine(date, merchant) == date \o <<",">> \o <<merchant>>

\* The files of the data folder: a name the loop skips, a name of no bank, a
\* bank without profile, files that cannot be opened, a statement with a
\* preamble and a record without date, statements that end with the column
\* line,
\* markup without the keyword, markup with the keyword outside a table,
\* markup with a table, a workbook, a statement whose records all lack a
\* date, a statement without column line.
SourceFiles ==
    { SourceFile(FALSE, "esun_bank", TRUE, FALSE,
                 <<ColumnLine, RecordLine(<<"01", "/", "05">>, "m1")>>),
      SourceFile(TRUE, "", TRUE, FALSE,
                 <<ColumnLine, RecordLine(<<"01", "/", "05">>, "m2")>>),
      SourceFile(TRUE, "sinopac_bank", TRUE, FALSE,
                 <<ColumnLine, RecordLine(<<"01", "/", "05">>, "m3")>>),
      SourceFile(TRUE, "esun_bank", FALSE, FALSE, <<>>),
      SourceFile(TRUE, "esun_bank", TRUE, FALSE,
                 <<PreambleLine, ColumnLine,
                   RecordLine(<<"01", "/", "05">>, "m4"),
                   RecordLine(<<"ab", "/", "05">>, "m5")>>),
      SourceFile(TRUE, "ctbc_bank", TRUE, FALSE, <<ColumnLine>>),
      SourceFile(TRUE, "esun_bank", TRUE, FALSE, <<PreambleLine, ColumnLine>>),
      SourceFile(TRUE, "hncb_bank", FALSE, FALSE, <<>>),
      SourceFile(TRUE, "hncb_bank", TRUE, TRUE,
                 <<PreambleLine, RecordLine(<<"01", "/", "05">>, "m6")>>),
      SourceFile(TRUE, "hncb_bank", TRUE, FALSE,
                 <<ColumnLine, RecordLine(<<"01", "/", "05">>, "m7")>>),
      SourceFile(TRUE, "hncb_bank", TRUE, TRUE,
                 <<ColumnLine, RecordLine(<<"12", "/", "31">>, "m8")>>),
      SourceFile(TRUE, "cube_bank", FALSE, FALSE, <<>>),
      SourceFile(TRUE, "cube_bank", TRUE, FALSE,
                 <<ColumnLine, RecordLine(<<"02", "/", "01">>, "m9")>>),
      SourceFile(TRUE, "esun_bank", TRUE, FALSE,
                 <<ColumnLine, RecordLine(<<"ab", "/", "cd">>, "m10")>>),
      SourceFile(TRUE, "ctbc_bank", TRUE, FALSE, <<PreambleLine, <<"m11">> >>) }

MaxFiles == 2

InitRouter ==
    /\ pc = "route_scan"
    /\ file_list \in UNION {[1..n -> SourceFiles] : n \in 0..MaxFiles}
    /\ file_idx = 1
    /\ all_data = <<>>
    /\ final_df = <<>>
    /\ PipelineIdle
    /\ ResolverIdle /\ DateIdle /\ CountryIdle /\ ReaderIdle

NextRouter ==
    \/ RouteFile
    \/ WriteLedger

SpecRouter == InitRouter /\ [][NextRouter]_vars

\* ------------------------------------------------------- extract_card_info
\* Node 3 of process_bank_file.  A statement row carries the bank name Node 2
\* wrote on every row, the merchant text and the two card columns.  The
\* texts are sequences of words: "kahao:" is the esun trigger, "(" and ")"
\* the full-width brackets, "-" the full-width dash, "zhengka" and "fuka" the
\* two card roles, "************" the run of twelve asterisks; a word of
\* four digits is a card number.
CardDigits == {"1234", "5678", "9999"}

target_banks == {"esun_bank", "hncb_bank"}

\* config['trigger'], searched in the merchant text.
Trigger(bank_id, text) ==
    IF text = NaNText THEN FALSE
    ELSE IF bank_id = "esun_bank"
         THEN \E i \in DOMAIN text : text[i] = "kahao:"
         ELSE \E i \in DOMAIN text : text[i] = "************"

\* config['card_no']: esun, four digits before "("; hncb, four digits after
\* the asterisks.  No match gives NaN.
ExtractCardNo(bank_id, text) ==
    IF text = NaNText THEN NaNText
    ELSE LET at == IF bank_id = "esun_bank"
                   THEN {i \in 1..(Len(text) - 1) :
                            text[i] \in CardDigits /\ text[i + 1] = "("}
                   ELSE {i \in 2..Len(text) :
                            text[i] \in CardDigits /\ text[i - 1] = "************"}
         IN  IF at = {} THEN NaNText ELSE <<text[SetMin(at)]>>

\* config['card_type']: esun, the words between "(" and the card role that
\* stands before ")", without the dash before the role; hncb, the words
\* before the asterisks.  No match gives NaN.
ExtractCardType(bank_id, text) ==
    IF text = NaNText THEN NaNText
    ELSE IF bank_id = "esun_bank"
    THEN LET ends(i) == {j \in (i + 1)..(Len(text) - 1) :
                            text[j] \in {"zhengka", "fuka"} /\ text[j + 1] = ")"}
             open == {i \in DOMAIN text : text[i] = "(" /\ ends(i) # {}}
         IN  IF open = {} THEN NaNText
             ELSE LET i == SetMin(open)
                      j == SetMin(ends(i))
                  IN  IF j - 1 > i /\ text[j - 1] = "-"
                      THEN SubSeq(text, i + 1, j - 2)
                      ELSE SubSeq(text, i + 1, j - 1)
    ELSE LET stars == {i \in DOMAIN text : text[i] = "************"}
         IN  IF stars = {} THEN NaNText ELSE SubSeq(text, 1, SetMin(stars) - 1)

mask_master(d, bank_id) == {i \in DOMAIN d : Trigger(bank_id, d[i].Merchant)}

\* raw_master_info without the fill: the master rows alone carry the text.
NoFill(d, bank_id) ==
    [i \in DOMAIN d |->
        IF i \in mask_master(d, bank_id) THEN d[i].Merchant ELSE NaNText]

\* raw_master_info after ffill(): the text of the nearest master row at or
\* before the row, NaN before the first.
ffill(d, bank_id) ==
    [i \in DOMAIN d |->
        LET before == {j \in mask_master(d, bank_id) : j <= i}
        IN  IF before = {} THEN NaNText ELSE d[SetMax(before)].Merchant]

\* The rows of d at the positions of keep, in order.
RECURSIVE KeepRows(_, _, _)
KeepRows(d, keep, i) ==
    IF i > Len(d) THEN <<>>
    ELSE (IF i \in keep THEN <<d[i]>> ELSE <<>>) \o KeepRows(d, keep, i + 1)

extract_card_info(d, bank_id) ==
    IF bank_id \notin target_banks THEN d
    ELSE IF mask_master(d, bank_id) = {} THEN d
    ELSE LET raw_master_info == ffill(d, bank_id)
             filled == [i \in DOMAIN d |->
                          [d[i] EXCEPT
                             !.Card_No = ExtractCardNo(bank_id, raw_master_info[i]),
                             !.Card_Type = ExtractCardType(bank_id, raw_master_info[i])]]
         IN  KeepRows(filled, (DOMAIN d) \ mask_master(d, bank_id), 1)

\* Node 3: df = extract_card_info(df, bank_id, ...).  bank_id is the name
\* Node 2 wrote on the rows.
ExtractCardInfo ==
    /\ pc = "extract_card_info"
    /\ df' = extract_card_info(df, df[1].Bank_Name)
    /\ pc' = "extract_done"
    /\ UNCHANGED <<entry, config, mask_general, out, cardLocals, channelLocals,
                   pipeLocals, toolLocals>>

\* Merchant cells of a grouped statement: two well-formed master lines and
\* one that carries the trigger alone, per bank; detail lines.
MasterTexts(bank_id) ==
    IF bank_id = "hncb_bank"
    THEN { <<"COMBO", "************", "1234">>, <<"************", "5678">>,
           <<"ICASH", "************">> }
    ELSE { <<"kahao:", "1234", "(", "VISA", "-", "zhengka", ")">>,
           <<"kahao:", "5678", "(", "JCB", "fuka", ")">>,
           <<"kahao:", "1234">> }

\* A detail row may carry a card number of its own (a mapped column).
GroupedRows(bank_id) ==
    {[Bank_Name |-> bank_id, Merchant |-> m, Card_No |-> NaNText,
      Card_Type |-> NaNText] : m \in MasterTexts(bank_id) \cup {<<"x">>, NaNText}}
    \cup {[Bank_Name |-> bank_id, Merchant |-> <<"y">>, Card_No |-> <<"9999">>,
           Card_Type |-> <<"OLD">>]}

MaxGroupedRows == 4

InitExtract ==
    /\ pc = "extract_card_info"
    /\ \E bank_id \in {"esun_bank", "hncb_bank", "ctbc_bank"} :
          df \in UNION {[1..n -> GroupedRows(bank_id)] : n \in 1..MaxGroupedRows}
    /\ entry = df
    /\ config = <<>>
    /\ mask_general = {}
    /\ out = <<>>
    /\ card_rules = <<>>
    /\ rule_idx = 1
    /\ df_card_clean = <<>>
    /\ df_mobile_clean = <<>>
    /\ hits = <<>>
    /\ payment_csv = <<>>
    /\ payment_rules = <<>>
    /\ merchant_csv = <<>>
    /\ merchant_rules = <<>>
    /\ result_csv = <<>>
    /\ ToolsIdle

NextExtract == ExtractCardInfo

SpecExtract == InitExtract /\ [][NextExtract]_vars

\* ------------------------------------------- process_bank_file, Node 5 (1 to 4)
\* A row of the frame after Nodes 2 to 4: the three date cells and the three
\* amount cells are texts as the file gave them (NaN for an empty cell), and
\* the frame has all of these columns.
\* 1: astype(str), the trailing '.0' removed, placeholders set to None.
CleanCardNo(t) ==
    LET text == Str(t)
        cut == IF Len(text) >= 1 /\ text[Len(text)] = ".0"
               THEN SubSeq(text, 1, Len(text) - 1) ELSE text
    IN  IF cut \in {<<"n", "a", "n">>, <<"N", "a", "N">>, EmptyText} THEN NaNText
        ELSE cut

\* The number a text of digits stands for; NaN for any other text.
NumberOf(t) ==
    CASE t = <<"0">> -> Num(0)
      [] t = <<"50">> -> Num(50)
      [] t = <<"-50">> -> Num(-50)
      [] t = <<"1", "000">> -> Num(1000)
      [] OTHER -> NaN

\* 3: astype(str).str.strip().str.replace(',', ''), pd.to_numeric(coerce).
CleanAmount(t) ==
    NumberOf(SelectSeq(Strip(Str(t)), LAMBDA c : c # ","))

dropna_any_date(rows) ==
    SelectSeq(rows, LAMBDA r : /\ r.Transaction_Date # NaT
                               /\ r.Posting_Date # NaT
                               /\ r.Conversion_Date # NaT)

\* 2: dropna(subset=[Transaction_Date])
dropna_txn(rows) == SelectSeq(rows, LAMBDA r : r.Transaction_Date # NaT)

\* Steps 1 to 4 on the frame.
AssembleRows(d, year, bmonth) ==
    LET step1 == [i \in DOMAIN d |-> [d[i] EXCEPT !.Card_No = CleanCardNo(@)]]
        step2 == dropna_txn(
                    [i \in DOMAIN step1 |->
                        [step1[i] EXCEPT
                            !.Transaction_Date = parse_date_with_year(@, year, bmonth),
                            !.Posting_Date = parse_date_with_year(@, year, bmonth),
                            !.Conversion_Date = parse_date_with_year(@, year, bmonth)]])
        step3 == [i \in DOMAIN step2 |->
                    [step2[i] EXCEPT !.Amount = CleanAmount(@),
                                     !.Payment_Amount = CleanAmount(@),
                                     !.Currency_Amount = CleanAmount(@)]]
    IN  [i \in DOMAIN step3 |->
            [step3[i] EXCEPT
                !.Payment_Amount = IF @ = NaN THEN step3[i].Amount ELSE @,
                !.Payment_Currency = IF @ = NaNStr THEN "TWD" ELSE @]]

AssembleFrame ==
    /\ pc = "assemble_rows"
    /\ df' = AssembleRows(df, base_year, bill_month)
    /\ pc' = "assemble_rows_done"
    /\ UNCHANGED <<entry, config, mask_general, out, cardLocals, channelLocals,
                   pipeLocals, toolLocals>>

RawRow(m, txn, post, conv, amount, pay, cur, card) ==
    [Merchant |-> m, Transaction_Date |-> txn, Posting_Date |-> post,
     Conversion_Date |-> conv, Amount |-> amount, Payment_Amount |-> pay,
     Currency_Amount |-> cur, Payment_Currency |-> NaNStr, Card_No |-> card]

\* Rows before assembly: all cells good; a transaction date that is no date
\* and a missing one; the other two dates and all amounts unparseable; a
\* settlement amount unparseable or missing beside a good amount, a zero
\* amount, a missing amount; amounts with separators and blanks.
RawRows ==
    { RawRow(<<"r1">>, <<"01", "/", "02">>, <<"01", "/", "02">>, NaNText,
             <<"50">>, NaNText, NaNText, <<"1234", ".0">>),
      RawRow(<<"r2">>, <<"ab", "/", "01">>, <<"01", "/", "02">>, NaNText,
             <<"50">>, <<"50">>, NaNText, <<"1234">>),
      RawRow(<<"r3">>, NaNText, <<"01", "/", "02">>, <<"01", "/", "02">>,
             <<"50">>, <<"50">>, <<"50">>, <<"1234">>),
      RawRow(<<"r4">>, <<"12", "/", "31">>, <<"13", "/", "40">>, <<"ab">>,
             <<"abc">>, <<"abc">>, <<"abc">>, NaNText),
      RawRow(<<"r5">>, <<"01", "/", "02">>, NaNText, NaNText,
             <<"1", ",", "000">>, <<"abc">>, NaNText, EmptyText),
      RawRow(<<"r6">>, <<"01", "/", "02">>, <<"01", "/", "02">>, <<"12", "/", "31">>,
             <<"0">>, <<" ", "50", " ">>, <<"0">>, <<"n", "a", "n">>),
      RawRow(<<"r7">>, <<"01", "/", "02">>, <<"01", "/", "02">>, NaNText,
             <<"0">>, <<"abc">>, <<"-50">>, <<"5678">>),
      RawRow(<<"r8">>, <<"2024", "/", "01", "/", "02">>, NaNText, NaNText,
             NaNText, NaNText, NaNText, <<"5678">>) }

MaxRawRows == 2

InitAssemble ==
    /\ pc = "assemble_rows"
    /\ df \in UNION {[1..n -> RawRows] : n \in 1..MaxRawRows}
    /\ entry = df
    /\ base_year = 2024
    /\ bill_month \in {1, 12}
    /\ date_str = <<>>
    /\ parsed = <<>>
    /\ config = <<>>
    /\ mask_general = {}
    /\ out = <<>>
    /\ card_rules = <<>>
    /\ rule_idx = 1
    /\ df_card_clean = <<>>
    /\ df_mobile_clean = <<>>
    /\ hits = <<>>
    /\ payment_csv = <<>>
    /\ payment_rules = <<>>
    /\ merchant_csv = <<>>
    /\ merchant_rules = <<>>
    /\ result_csv = <<>>
    /\ ResolverIdle /\ CountryIdle /\ ReaderIdle /\ RouterIdle

NextAssemble == AssembleFrame

SpecAssemble == InitAssemble /\ [][NextAssemble]_vars

\* ------------------------------------------------------------- the pipeline
\* Location texts of the statements as Node 4 leaves them: missing, a
\* two-letter code, a three-letter code in lower case, a code followed by a
\* place name after a blank, after a tab and a blank, and an unknown code.
RawLocations ==
    { NaNText, <<"T", "W">>, <<"t", "w", "n">>, <<"J", "P", " ", "X">>,
      <<"T", "W", "\t", " ", "X">>, <<"X", "Y", "Z">> }

\* Transaction currency and amount of the statement line: none, or foreign.
RawCurrencies ==
    { [cur |-> NaNStr, camt |-> NaN],
      [cur |-> "JPY", camt |-> Num(100)] }

\* Merchant text and amount due of the statement line.
RawMerchants ==
    { [merchant |-> <<"x">>, amount |-> Num(50)],
      [merchant |-> <<"P">>, amount |-> Num(-50)],
      [merchant |-> <<"shiyong e point", "30", "dian zhe xianjin", "30", "yuan">>,
       amount |-> Num(0)] }

StatementRow(loc, c, m) ==
    [Bank_Name |-> "esun_bank",
     Card_Type |-> NaNStr,
     Card_No |-> <<"1">>,
     Merchant |-> m.merchant,
     Merchant_Location |-> loc,
     Consumption_Place |-> IF loc = NaNText THEN NaNStr ELSE "PLACE",
     Transaction_Type |-> NaNStr,
     Mobile_Payment |-> NaNStr,
     Currency_Type |-> c.cur,
     Currency_Amount |-> c.camt,
     Payment_Currency |-> "TWD",
     Payment_Amount |-> m.amount]

StatementRows ==
    {StatementRow(loc, c, m) :
        loc \in RawLocations, c \in RawCurrencies, m \in RawMerchants}

\* card_mapping.csv of the pipeline: one rule for card 1.
PipelineCardRules ==
    { <<MkRule(1, [card_no |-> <<"1">>, mobile |-> "",
                   fill |-> [type |-> TRUE, prefix |-> TRUE, replace |-> TRUE]])>> }

\* payment_regex_rules.csv of the pipeline: missing, unreadable, one rule,
\* a rule whose pattern does not compile before another, a rule whose
\* Prefix_Label cell is empty.
PipelinePaymentCsvs ==
    { NoPaymentCsv,
      [exists |-> TRUE, readable |-> FALSE, has_priority |-> FALSE, rules |-> <<>>],
      [exists |-> TRUE, readable |-> TRUE, has_priority |-> TRUE,
       rules |-> <<MkChannelRule(1, [pattern |-> <<"x">>, priority |-> Num(10),
                                     label |-> TRUE])>>],
      [exists |-> TRUE, readable |-> TRUE, has_priority |-> TRUE,
       rules |-> <<MkChannelRule(1, [pattern |-> <<"(">>, priority |-> Num(10),
                                     label |-> TRUE]),
                   MkChannelRule(2, [pattern |-> <<"x">>, priority |-> Num(5),
                                     label |-> TRUE])>>],
      [exists |-> TRUE, readable |-> TRUE, has_priority |-> TRUE,
       rules |-> <<MkChannelRule(1, [pattern |-> <<"x">>, priority |-> Num(10),
                                     label |-> FALSE])>>] }

\* merchant_regex_rules.csv: missing, unreadable, two rules of equal
\* priority, a rule without pattern and a rule without replacement, a rule
\* whose pattern does not compile and a rule for a part of a longer text,
\* two rules of different priority for the same text.
MerchantCsvs ==
    { NoMerchantCsv,
      [exists |-> TRUE, readable |-> FALSE, has_priority |-> FALSE, rules |-> <<>>],
      [exists |-> TRUE, readable |-> TRUE, has_priority |-> TRUE,
       rules |-> << [pattern |-> <<"(">>, replacement |-> <<"y">>, priority |-> Num(9)],
                    [pattern |-> <<"30">>, replacement |-> <<"E">>, priority |-> Num(1)] >>],
      [exists |-> TRUE, readable |-> TRUE, has_priority |-> TRUE,
       rules |-> << [pattern |-> <<"x">>, replacement |-> <<"y">>, priority |-> Num(5)],
                    [pattern |-> <<"y">>, replacement |-> <<"z">>, priority |-> Num(5)] >>],
      [exists |-> TRUE, readable |-> TRUE, has_priority |-> TRUE,
       rules |-> << [pattern |-> <<"x">>, replacement |-> <<"z">>, priority |-> Num(1)],
                    [pattern |-> <<"x">>, replacement |-> <<"x", "y">>, priority |-> Num(9)] >>],
      [exists |-> TRUE, readable |-> TRUE, has_priority |-> FALSE,
       rules |-> << [pattern |-> <<" ">>, replacement |-> <<"y">>, priority |-> NaN],
                    [pattern |-> <<"x">>, replacement |-> NaNText, priority |-> NaN] >>] }

Init ==
    /\ pc = "assemble"
    /\ df \in Ledgers(StatementRows)
    /\ entry = df
    /\ config \in Configs
    /\ mask_general = {}
    /\ out = <<>>
    /\ card_rules \in PipelineCardRules
    /\ rule_idx = 1
    /\ df_card_clean = <<>>
    /\ df_mobile_clean = <<>>
    /\ hits = <<>>
    /\ payment_csv \in PipelinePaymentCsvs
    /\ payment_rules = <<>>
    /\ merchant_csv \in MerchantCsvs
    /\ merchant_rules = <<>>
    /\ result_csv = <<>>
    /\ ToolsIdle

Next ==
    \/ AssembleLocation
    \/ WriteResult
    \/ LoadPaymentRules
    \/ LoadMerchantRules
    \/ ReadInput
    \/ CardMappingBegin
    \/ CardRule
    \/ CleanupCathay
    \/ IdentifyBegin
    \/ IdentifyRule
    \/ EsunEpoint
    \/ CleanMerchantBegin
    \/ CleanMerchantRule
    \/ ClassifyPayment
    \/ ClassifyCredit
    \/ ClassifyRefund
    \/ ClassifyFee
    \/ ClassifyZero
    \/ ClassifyGeneral
    \/ ClassifyForeign
    \/ ClassifySameTWD
    \/ ClassifySameDual
    \/ ApplyFinalPrefixes
    \/ Output

Spec == Init /\ [][Next]_vars

\* ------------------------------------------------------------------ claims
Classifying ==
    pc \in {"classify_payment", "classify_credit", "classify_refund",
            "classify_fee", "classify_zero", "classify_general",
            "classify_foreign", "classify_same_twd", "classify_same_dual"}

PostClassify == pc \in {"final_prefixes", "output", "done"}

TypeOf(d, i) == d[i].Transaction_Type

\* C1 (as stated): during a run of classify_transaction_type, a row whose
\* Transaction_Type is non-empty is never written again.
C1_Original ==
    [][Classifying =>
        \A i \in DOMAIN df :
            TypeOf(df, i) # "" => TypeOf(df', i) = TypeOf(df, i)]_vars

\* C1 (amended): a non-empty Transaction_Type is rewritten only in the
\* general-transaction stage, only from the default label written by step A
\* of that stage, and only to one of the three foreign sub-categories; a
\* label written by stages 1 to 5, or a foreign sub-category, is final.
C1_AssignedOnceExceptDefault ==
    [][Classifying =>
        \A i \in DOMAIN df :
            (TypeOf(df, i) # "" /\ TypeOf(df', i) # TypeOf(df, i)) =>
                /\ TypeOf(df, i) = T_TXN
                /\ i \in mask_general
                /\ TypeOf(df', i) \in ForeignTypes
                /\ pc \in {"classify_foreign", "classify_same_twd",
                           "classify_same_dual"}]_vars

\* A row labelled by the refund stage went through the fee, zero and
\* general stages after it.
C1_Witness ==
    /\ pc = "final_prefixes"
    /\ \E i \in DOMAIN df :
        /\ TypeOf(entry, i) = ""
        /\ TypeOf(df, i) = T_REFUND
        /\ ContainsAnyFold(entry[i].Merchant, config.fee_keywords)

\* The category of the first stage, in the fixed order, whose condition the
\* row satisfies as it entered; "general" stands for stage 6, "" for none.
FirstStage(r, cfg) ==
    IF /\ ContainsAnyFold(r.Merchant, cfg.payment_keywords)
       /\ ~ContainsAnyFold(r.Merchant, ExclusionWords)
    THEN T_PAYMENT
    ELSE IF ContainsAnyFold(r.Merchant, cfg.credit_keywords) THEN T_CREDIT
    ELSE IF IsNum(r.Payment_Amount) /\ Val(r.Payment_Amount) < 0 THEN T_REFUND
    ELSE IF ContainsAnyFold(r.Merchant, cfg.fee_keywords) THEN T_FEE
    ELSE IF IsNum(r.Payment_Amount) /\ Val(r.Payment_Amount) = 0 THEN T_ZERO
    ELSE IF IsNum(r.Payment_Amount) /\ Val(r.Payment_Amount) > 0 THEN "general"
    ELSE ""

\* C2: a row entering unset ends with the category of the first stage whose
\* condition it satisfies: payment (keyword, no exclusion word), credit,
\* refund (< 0), fee, zero (= 0), general transaction (> 0).
C2_FirstStageWins ==
    PostClassify =>
        \A i \in DOMAIN df :
            TypeOf(entry, i) = "" =>
                LET s == FirstStage(entry[i], config) IN
                IF s = "general"
                THEN TypeOf(df, i) \in {T_TXN} \cup ForeignTypes
                ELSE TypeOf(df, i) = s

\* A negative row with a fee keyword is a refund, and a row with a payment
\* keyword and an exclusion word is not a payment.
C2_Witness ==
    /\ pc = "done"
    /\ \E i \in DOMAIN df :
        /\ TypeOf(entry, i) = ""
        /\ ContainsAnyFold(entry[i].Merchant, config.payment_keywords)
        /\ ContainsAnyFold(entry[i].Merchant, ExclusionWords)
        /\ TypeOf(df, i) = T_REFUND

\* C3: a row of the general stage located outside TW ends 'foreign' when
\* its two currencies differ, 'twd_cross' when both are TWD, 'dual' when
\* they are equal and not TWD.
C3_ForeignSubcategory ==
    PostClassify =>
        \A i \in mask_general :
            df[i].Merchant_Location # TW =>
                TypeOf(df, i) =
                    IF df[i].Currency_Type # df[i].Payment_Currency
                    THEN T_FOREIGN
                    ELSE IF df[i].Currency_Type = "TWD" THEN T_TWD_CROSS
                    ELSE T_DUAL

C3_Witness ==
    /\ pc = "done"
    /\ \E i \in mask_general :
        /\ df[i].Merchant_Location # TW
        /\ df[i].Currency_Type = df[i].Payment_Currency
        /\ df[i].Currency_Type # "TWD"
        /\ TypeOf(df, i) = T_DUAL

\* C4: after the classifier a 'twd_cross' row has Currency_Amount equal to
\* Payment_Amount, and every other row keeps the Currency_Amount it had.
C4_AmountSynced ==
    PostClassify =>
        \A i \in DOMAIN df :
            IF TypeOf(df, i) = T_TWD_CROSS
            THEN df[i].Currency_Amount = df[i].Payment_Amount
            ELSE df[i].Currency_Amount = entry[i].Currency_Amount

C4_Witness ==
    /\ pc = "final_prefixes"
    /\ \E i \in DOMAIN df :
        /\ TypeOf(df, i) = T_TWD_CROSS
        /\ entry[i].Currency_Amount # entry[i].Payment_Amount
        /\ df[i].Currency_Amount = df[i].Payment_Amount

\* C5: a row that entered the classifier unset leaves it unset or with a
\* label of the vocabulary, and apply_final_prefixes and the output keep
\* every row's label.
C5_VocabularyKept ==
    /\ [](PostClassify =>
            \A i \in DOMAIN df :
                TypeOf(entry, i) = "" => TypeOf(df, i) \in Vocabulary \cup {""})
    /\ [][PostClassify =>
            /\ \A i \in DOMAIN df : TypeOf(df', i) = TypeOf(df, i)
            /\ pc' = "done" =>
                /\ DOMAIN out' = DOMAIN df
                /\ \A i \in DOMAIN df : TypeOf(out', i) = TypeOf(df, i)]_vars

C5_Witness ==
    /\ pc = "done"
    /\ \E i \in DOMAIN out :
        /\ TypeOf(entry, i) = ""
        /\ TypeOf(out, i) = T_ZERO

AfterCardRules == pc = "cleanup_cathay"

\* C7 (as stated): a row matched by two or more rules carries, in all four
\* fields, the values of the last-declared rule that matched it.
C7_Original ==
    AfterCardRules =>
        \A i \in DOMAIN df :
            Cardinality(hits[i]) >= 2 =>
                LET last == card_rules[SetMax(hits[i])] IN
                /\ df[i].Card_Type = last.card_type
                /\ df[i].Mobile_Payment = last.mobile
                /\ df[i].payment_prefix = last.prefix
                /\ df[i].Card_No = last.replace

\* The value a field holds after the loop: that of the last-declared
\* matching rule that fills the field, else the value given as default.
LastFilled(i, f, empty, default) ==
    LET filled == {k \in hits[i] : card_rules[k][f] # empty}
    IN  IF filled = {} THEN default ELSE card_rules[SetMax(filled)][f]

\* C7 (amended): the rules are visited in declaration order, and after the
\* loop each of the four fields of a row holds the value of the
\* last-declared matching rule that declares a non-empty value for that
\* field; a field no matching rule fills keeps the row's value (the pending
\* prefix is empty).
C7_LastFilledWins ==
    AfterCardRules =>
        \A i \in DOMAIN df :
            /\ df[i].Card_Type = LastFilled(i, "card_type", "", entry[i].Card_Type)
            /\ df[i].Mobile_Payment =
                    LastFilled(i, "mobile", "", entry[i].Mobile_Payment)
            /\ df[i].payment_prefix = LastFilled(i, "prefix", EmptyText, EmptyText)
            /\ df[i].Card_No = LastFilled(i, "replace", EmptyText, entry[i].Card_No)

\* Two rules matched one row; the later one fills the replacement but not
\* the card type, which stays the earlier rule's.
C7_Witness ==
    /\ AfterCardRules
    /\ \E i \in DOMAIN df :
        /\ hits[i] = {1, 2}
        /\ card_rules[2].card_type = ""
        /\ card_rules[1].card_type # ""
        /\ df[i].Card_Type = card_rules[1].card_type
        /\ card_rules[1].replace # EmptyText
        /\ card_rules[2].replace # EmptyText
        /\ df[i].Card_No = card_rules[2].replace

\* The match the claim describes, on the row as it stands when rule r is
\* evaluated: fragment equality (blanks removed), and for a fragment without
\* '/' that names a channel tag, equality of the row's current tag.
MatchesAsStated(r, i) ==
    LET frag == RemoveSpaces(r.card_no) IN
    /\ frag # EmptyText
    /\ Strip(RemoveSpaces(entry[i].Card_No)) = frag
    /\ (~Contains(frag, <<"/">>) /\ r.mobile # "") =>
            df[i].Mobile_Payment = r.mobile

AfterIdentify == pc = "esun_epoint"

\* C9: a rule of identify_third_party_payment changes Mobile_Payment and the
\* pending prefix only on rows whose Mobile_Payment is empty when it is
\* applied; a row that enters the pass with a channel tag leaves it with the
\* tag and the prefix it had.
C9_TaggedRowsKept ==
    /\ [][pc = "identify_rule" =>
            \A i \in DOMAIN df :
                df[i].Mobile_Payment # "" =>
                    /\ df'[i].Mobile_Payment = df[i].Mobile_Payment
                    /\ df'[i].payment_prefix = df[i].payment_prefix]_vars
    /\ [](AfterIdentify =>
            \A i \in DOMAIN df :
                entry[i].Mobile_Payment # "" =>
                    /\ df[i].Mobile_Payment = entry[i].Mobile_Payment
                    /\ df[i].payment_prefix = entry[i].payment_prefix)

\* A tagged row whose merchant text matches a channel rule came through.
C9_Witness ==
    /\ AfterIdentify
    /\ \E i \in DOMAIN df :
        /\ entry[i].Mobile_Payment = "ApplePay"
        /\ \E k \in DOMAIN payment_rules :
                Contains(entry[i].Merchant, payment_rules[k].pattern)
        /\ df[i].Mobile_Payment = "ApplePay"

\* The declared rules whose pattern occurs in a merchant text.
Matching(text) ==
    {k \in DOMAIN payment_csv.rules : Contains(text, payment_csv.rules[k].pattern)}

\* Among them the one of highest priority, the first declared on a tie.
Best(text) ==
    CHOOSE k \in Matching(text) :
        \A j \in Matching(text) :
            \/ Priority(payment_csv.rules[k]) > Priority(payment_csv.rules[j])
            \/ /\ Priority(payment_csv.rules[k]) = Priority(payment_csv.rules[j])
               /\ k <= j

\* C10: an untagged row whose merchant text matches several channel rules
\* ends with the category and the prefix label of the matching rule of
\* highest priority, the first declared among equal priorities.
C10_HighestPriorityFirstDeclared ==
    (AfterIdentify /\ payment_csv.has_priority) =>
        \A i \in DOMAIN df :
            (entry[i].Mobile_Payment = "" /\ Matching(entry[i].Merchant) # {}) =>
                LET r == payment_csv.rules[Best(entry[i].Merchant)] IN
                /\ df[i].Mobile_Payment = r.category
                /\ df[i].payment_prefix = r.prefix_label

\* ---------------------------------------------------------------------- C6
\* The ledger is the output of process_bank_file or of a later stage.
Assembled == pc # "assemble"

\* Claim C6, as stated: in the output of process_bank_file and after every
\* later stage of the refine pipeline, every row whose Merchant_Location is
\* the home country TW has both Currency_Type and Currency_Amount unset.
\* A location text "TW<tab> PLACE" keeps its tab through
\* normalize_country_code, so the row is assembled as a foreign one and gets
\* a currency; the strip of refine.py main then leaves TW.
C6_DomesticWithoutCurrency ==
    Assembled =>
        \A i \in DOMAIN df :
            df[i].Merchant_Location = TW =>
                /\ df[i].Currency_Type \in {NaNStr, ""}
                /\ df[i].Currency_Amount = NaN

\* ------------------------------------------------------------- C11 .. C13
\* process_merchant_hybrid was called with a string and is past step 1.
Stripped ==
    /\ pc \in {"resolve_lookup", "resolve_regex", "resolve_give_up", "resolve_done"}
    /\ raw_name # NaNText

Returned == pc = "resolve_done" /\ raw_name # NaNText

\* The configured prefixes the trimmed text starts with.
MatchingPrefixes ==
    {payment_prefixes[k] : k \in {j \in DOMAIN payment_prefixes :
                                    StartsWith(Strip(raw_name), payment_prefixes[j])}}

\* The trimmed text without the longest configured prefix it starts with,
\* trimmed again.
PrefixStripped ==
    IF MatchingPrefixes = {} THEN Strip(raw_name)
    ELSE LET longest == CHOOSE x \in MatchingPrefixes :
                            \A y \in MatchingPrefixes : Len(y) <= Len(x)
         IN  Strip(SubSeq(Strip(raw_name), Len(longest) + 1, Len(Strip(raw_name))))

RegexMatches(name) ==
    \E k \in DOMAIN rules_list : Search(rules_list[k].pattern, name)

\* Claim C11: whenever the prefix-stripped merchant name is exactly equal
\* to a key of the lookup table, the result is that name with the lookup
\* entry's category, sub-category and exclusion flag, whatever regex rules
\* also match the name; the regex scan is never entered.
C11_LookupShortCircuits ==
    /\ [](Returned /\ PrefixStripped \in DOMAIN lookup_dict =>
            resolved = Result(PrefixStripped, lookup_dict[PrefixStripped]))
    /\ [][pc = "resolve_lookup" /\ PrefixStripped \in DOMAIN lookup_dict =>
            pc' = "resolve_done"]_vars

\* C11 witness: a name returned from the lookup although a regex rule with
\* another category matches it.
C11_Witness ==
    /\ Returned
    /\ PrefixStripped \in DOMAIN lookup_dict
    /\ \E k \in DOMAIN rules_list :
          /\ Search(rules_list[k].pattern, PrefixStripped)
          /\ rules_list[k].info.category # lookup_dict[PrefixStripped].category

NothingMatches ==
    /\ Returned
    /\ PrefixStripped \notin DOMAIN lookup_dict
    /\ ~RegexMatches(PrefixStripped)

\* The tuple of an uncategorized merchant.
Uncategorized(name) ==
    [name |-> name, category |-> "Unknown", sub_category |-> "",
     RFM_Exclusion |-> FALSE]

\* Claim C12, as stated: for a raw string whose prefix-stripped form matches
\* no lookup key and no regex pattern, the category is 'Unknown' (empty
\* sub-category, exclusion false) and the returned name equals the
\* prefix-stripped input.
C12_Original == NothingMatches => resolved = Uncategorized(PrefixStripped)

\* Claim C12, amended: ... and the returned name equals the prefix-stripped
\* input when that is not empty, and the raw string itself when stripping
\* left nothing.
C12_UnknownKeepsName ==
    NothingMatches =>
        resolved = Uncategorized(IF PrefixStripped # EmptyText THEN PrefixStripped
                                 ELSE raw_name)

\* C12 witness: nothing matched a name that kept text after its prefix was
\* cut off.
C12_Witness ==
    /\ NothingMatches
    /\ PrefixStripped # EmptyText
    /\ MatchingPrefixes # {}

\* Claim C13: at most one payment-channel prefix is stripped, the longest
\* configured prefix the text starts with; text starting with no configured
\* prefix is left unstripped.
C13_LongestPrefixStripped == Stripped => current_name = PrefixStripped

\* C13 witness: two configured prefixes, one the start of the other, both
\* start the text, and text is left after the longer one.
C13_Witness ==
    /\ Stripped
    /\ \E x, y \in MatchingPrefixes : Len(x) < Len(y)
    /\ current_name # EmptyText

\* ---------------------------------------------------------------------- C14
\* clean_merchant_by_regex has returned.
AfterCleanMerchant == pc = "classify_payment" /\ result_csv # <<>>

\* The rules of the list whose pattern is found in the text.
RulesMatching(text) ==
    {k \in DOMAIN merchant_rules :
        /\ ValidRegex(merchant_rules[k].pattern)
        /\ Contains(text, merchant_rules[k].pattern)}

\* Claim C14: a row whose merchant text matches no rule keeps its text; a
\* row that matches a rule with a non-empty replacement ends with a
\* merchant field equal to one rule's replacement, the whole field; rules
\* with an empty replacement change nothing.
C14_WholeFieldReplaced ==
    AfterCleanMerchant =>
        \A i \in DOMAIN df :
            LET m == RulesMatching(entry[i].Merchant)
                filled == {k \in m : merchant_rules[k].replacement # EmptyText}
            IN  /\ m = {} => df[i].Merchant = entry[i].Merchant
                /\ filled = {} => df[i].Merchant = entry[i].Merchant
                /\ filled # {} =>
                      \E k \in DOMAIN merchant_rules :
                          /\ merchant_rules[k].replacement # EmptyText
                          /\ df[i].Merchant = merchant_rules[k].replacement

\* C14 witness: a rule matched a part of a longer merchant text and the
\* field is the replacement alone.
C14_Witness ==
    /\ AfterCleanMerchant
    /\ \E i \in DOMAIN df :
          \E k \in RulesMatching(entry[i].Merchant) :
              /\ Len(entry[i].Merchant) > Len(merchant_rules[k].pattern)
              /\ df[i].Merchant = merchant_rules[k].replacement

\* ------------------------------------------------------------- C15, C16
DateReturned == pc = "date_done"

\* The words of digits of the tokens.
Digits ==
    {"0", "1", "01", "2", "02", "12", "13", "29", "31", "40", "2023", "2024"}

\* The number written by a word of digits.
Written(w) ==
    CASE w \in {"0"} -> 0
      [] w \in {"1", "01"} -> 1
      [] w \in {"2", "02"} -> 2
      [] w = "2023" -> 2023
      [] w = "2024" -> 2024
      [] w = "12" -> 12
      [] w = "13" -> 13
      [] w = "29" -> 29
      [] w = "31" -> 31
      [] OTHER -> 40

\* The year a month/day token belongs to, as the claim gives it.
BilledYear(month) ==
    IF bill_month = 1 /\ month = 12 THEN base_year - 1
    ELSE IF bill_month = 12 /\ month = 1 THEN base_year + 1
    ELSE base_year

\* Month m and day d form a date of year y.
Exists(y, m, d) ==
    /\ m \in 1..12
    /\ d >= 1
    /\ d <= (CASE m = 2 -> (IF y % 4 = 0 /\ (y % 100 # 0 \/ y % 400 = 0) THEN 29 ELSE 28)
               [] m \in {4, 6, 9, 11} -> 30
               [] OTHER -> 31)

\* Claim C15: on a two-part month/day token with valid month and day the
\* resolved year is billing_year-1 when the billing month is 1 and the
\* token's month is 12, billing_year+1 when the billing month is 12 and the
\* token's month is 1, and billing_year in every other case; month and day
\* are those of the token.
C15_YearAcrossNewYear ==
    DateReturned =>
        \A m, d \in Digits : \A x \in {"/", "-"} :
            /\ date_str # NaNText
            /\ Strip(date_str) = <<m, x, d>>
            /\ Exists(BilledYear(Written(m)), Written(m), Written(d))
            => parsed = [year |-> BilledYear(Written(m)), month |-> Written(m),
                         day |-> Written(d)]

\* C15 witness: a December date of a January statement resolved to the
\* year before.
C15_Witness ==
    /\ DateReturned
    /\ bill_month = 1
    /\ date_str # NaNText
    /\ \E x \in {"/", "-"} : Strip(date_str) = <<"12", x, "31">>
    /\ parsed.year = base_year - 1

\* The token has two or three parts, each a word of digits (with blanks
\* around it at most).
WellFormed ==
    /\ date_str # NaNText
    /\ LET s == SelectSeq(date_str, LAMBDA c : c # " ")
       IN  \/ \E a, b \in Digits : \E x \in {"/", "-"} : s = <<a, x, b>>
           \/ \E a, b, c \in Digits : \E x, y \in {"/", "-"} : s = <<a, x, b, y, c>>

\* Claim C16: parse_date_with_year is total: for every token it returns
\* 'no value' or a date and never raises; it returns a date only for a
\* well-formed token of two or three parts.
C16_Total ==
    /\ [](pc # "date_raised")
    /\ [](DateReturned /\ ~WellFormed => parsed = [year |-> 0, month |-> 0, day |-> 0])
    /\ [](DateReturned => parsed.year >= 0)

\* C16 witness: an out-of-range month/day token of two parts came back as
\* 'no value'.
C16_Witness ==
    /\ DateReturned
    /\ date_str = <<"13", "/", "40">>
    /\ parsed = [year |-> 0, month |-> 0, day |-> 0]

\* ---------------------------------------------------------------------- C17
\* The reference function of the claim, written from its words.
RECURSIVE TrimLeft(_)
TrimLeft(t) ==
    IF t # <<>> /\ t[1] \in {" ", "\t"} THEN TrimLeft(Tail(t)) ELSE t

RECURSIVE TrimRight(_)
TrimRight(t) ==
    IF t # <<>> /\ t[Len(t)] \in {" ", "\t"}
    THEN TrimRight(SubSeq(t, 1, Len(t) - 1)) ELSE t

RECURSIVE UpToBlank(_)
UpToBlank(t) ==
    IF t = <<>> \/ t[1] = " " THEN <<>> ELSE <<t[1]>> \o UpToBlank(Tail(t))

Capital(c) ==
    IF c \in {"t", "w", "n", "j", "p"}
    THEN [x \in {"t", "w", "n", "j", "p"} |->
            CASE x = "t" -> "T" [] x = "w" -> "W" [] x = "n" -> "N"
              [] x = "j" -> "J" [] OTHER -> "P"][c]
    ELSE c

ThreeLetterTable ==
    [k \in { <<"T", "W", "N">>, <<"U", "S", "A">>, <<"J", "P", "N">>,
             <<"K", "O", "R">>, <<"H", "K", "G">>, <<"S", "G", "P">>,
             <<"G", "B", "R">>, <<"C", "H", "N">>, <<"I", "R", "L">>,
             <<"D", "E", "U">>, <<"F", "R", "A">>, <<"A", "U", "S">>,
             <<"V", "N", "M">>, <<"T", "H", "A">>, <<"M", "Y", "S">>,
             <<"I", "D", "N">> } |->
        CASE k = <<"T", "W", "N">> -> <<"T", "W">>
          [] k = <<"U", "S", "A">> -> <<"U", "S">>
          [] k = <<"J", "P", "N">> -> <<"J", "P">>
          [] k = <<"K", "O", "R">> -> <<"K", "R">>
          [] k = <<"H", "K", "G">> -> <<"H", "K">>
          [] k = <<"S", "G", "P">> -> <<"S", "G">>
          [] k = <<"G", "B", "R">> -> <<"G", "B">>
          [] k = <<"C", "H", "N">> -> <<"C", "N">>
          [] k = <<"I", "R", "L">> -> <<"I", "E">>
          [] k = <<"D", "E", "U">> -> <<"D", "E">>
          [] k = <<"F", "R", "A">> -> <<"F", "R">>
          [] k = <<"A", "U", "S">> -> <<"A", "U">>
          [] k = <<"V", "N", "M">> -> <<"V", "N">>
          [] k = <<"T", "H", "A">> -> <<"T", "H">>
          [] k = <<"M", "Y", "S">> -> <<"M", "Y">>
          [] OTHER -> <<"I", "D">>]

Reference(location) ==
    IF location = <<"<NaN>">> THEN <<"T", "W">>
    ELSE LET trimmed == TrimRight(TrimLeft(location)) IN
         IF trimmed = <<>> THEN <<"T", "W">>
         ELSE LET first == UpToBlank(trimmed)
                  token == [i \in DOMAIN first |-> Capital(first[i])]
              IN  IF token \in DOMAIN ThreeLetterTable THEN ThreeLetterTable[token]
                  ELSE token

\* Claim C17: normalize_country_code equals the reference function: null or
\* blank input gives TW; otherwise the first space-delimited token of the
\* trimmed input, uppercased, is mapped through the table of 16 three-letter
\* codes, or returned as it is (two characters, or not in the table).
C17_EqualsReference ==
    pc = "normalize_done" => normalized = Reference(raw_location)

\* C17 witness: a three-letter code in lower case followed by a place name
\* came back as its two-letter code.
C17_Witness ==
    /\ pc = "normalize_done"
    /\ raw_location = <<" ", "t", "w", "n", " ", "Z", " ">>
    /\ normalized = <<"T", "W">>

\* ---------------------------------------------------------------- C18
\* The line number, counted from 1, of the first line that carries the
\* keyword; 0 when no line does or the keyword is None or empty.
FirstKeywordLine ==
    IF \E n \in 1..Len(all_lines) : KeywordIn(header_keyword, all_lines[n])
    THEN CHOOSE n \in 1..Len(all_lines) :
            /\ KeywordIn(header_keyword, all_lines[n])
            /\ \A k \in 1..(n - 1) : ~KeywordIn(header_keyword, all_lines[k])
    ELSE 0

ReadFinished == pc = "read_done" /\ all_lines # <<>>

\* C18: smart_read_csv scans at most the first 50 lines of the file for the
\* header keyword: a keyword whose first occurrence is on the 51st line or
\* later is treated as not found, and the file is then parsed from line 0
\* instead of from the keyword line.
C18_FiftyLinesScanned ==
    (ReadFinished /\ FirstKeywordLine >= 51) =>
        (~found_header /\ frame = read_csv(all_lines, 0))

\* C18, the lines the code does scan: a keyword first met on lines 1 to 51
\* is found and the table starts there; on line 52 or later, or nowhere, the
\* file is parsed from line 0.
C18_FiftyOneLinesScanned ==
    ReadFinished =>
        IF FirstKeywordLine \in 1..51
        THEN found_header /\ frame = read_csv(all_lines, FirstKeywordLine - 1)
        ELSE ~found_header /\ frame = read_csv(all_lines, 0)

\* C18: a file whose keyword is first on line 51 has been read, and its
\* table starts at that line.
C18_Line51Found ==
    /\ ReadFinished
    /\ FirstKeywordLine = 51
    /\ frame.ok /\ frame.from = 50

\* ---------------------------------------------------------------- C19
\* The failures the claim lists, read off the file.
MissingProfile(file) ==
    file.bank \notin {"esun_bank", "ctbc_bank", "hncb_bank", "cube_bank"}

Unreadable(file) == ~file.readable

KeywordNotInMarkup(file) ==
    /\ file.bank = "hncb_bank"
    /\ ~(file.table /\ \E i \in DOMAIN file.lines :
                          Contains(file.lines[i], HeaderKeyword))

\* No line follows the column line (the first line when there is none).
EmptyRecordSet(file) ==
    LET at == {i \in DOMAIN file.lines : file.lines[i] = ColumnLine}
    IN  Len(file.lines) <= (IF at = {} THEN 1 ELSE SetMin(at))

Fails(file) ==
    \/ MissingProfile(file)
    \/ Unreadable(file)
    \/ KeywordNotInMarkup(file)
    \/ EmptyRecordSet(file)

\* The files the loop hands to process_bank_file.
Routed(file) == file.listed /\ file.bank # ""

\* The rows of the files before position n that are routed and do not fail.
RECURSIVE RowsOfOthers(_)
RowsOfOthers(n) ==
    IF n = 0 THEN <<>>
    ELSE RowsOfOthers(n - 1) \o
            (IF Routed(file_list[n]) /\ ~Fails(file_list[n])
             THEN process_bank_file(file_list[n], file_list[n].bank).records
             ELSE <<>>)

\* C19: for any list of source files, a file whose processing fails (missing
\* bank profile, unreadable file, header keyword not found in markup, empty
\* record set) makes process_bank_file return 'no records' rather than raise,
\* contributes no rows to the ledger, and every other file in the directory
\* is still processed and its rows appear in the concatenated ledger.
C19_FailedFileSkipped ==
    /\ pc # "route_raised"
    /\ \A n \in DOMAIN file_list :
          (Routed(file_list[n]) /\ Fails(file_list[n])) =>
              process_bank_file(file_list[n], file_list[n].bank) = None
    /\ pc = "route_scan" => concat(all_data) = RowsOfOthers(file_idx - 1)
    /\ pc = "route_done" =>
          /\ file_idx = Len(file_list) + 1
          /\ final_df.rows = RowsOfOthers(Len(file_list))

\* C19: a list whose first file fails and whose second does not has been
\* routed, and the ledger written holds the rows of the second.
C19_Witness ==
    /\ pc = "route_done"
    /\ Len(file_list) = 2
    /\ Routed(file_list[1]) /\ Fails(file_list[1])
    /\ Routed(file_list[2]) /\ ~Fails(file_list[2])
    /\ final_df.written
    /\ final_df.rows # <<>>

\* ---------------------------------------------------------------- C20
MerchantRuleSetAbsent == ~merchant_csv.exists \/ ~merchant_csv.readable

PaymentRuleSetAbsent == ~payment_csv.exists

\* The payment half of C20: without payment-channel rules the run of
\* refine.py completes, with no channel rule applied.
C20_PaymentRulesOptional ==
    (PaymentRuleSetAbsent /\ pc = "done") => (payment_rules = <<>> /\ out # <<>>)

\* C20: a missing or unreadable merchant rule set halts the run (no
\* classified ledger is produced), whereas a missing payment-channel rule
\* set only disables channel identification and the run completes with the
\* remaining stages applied.
C20_MerchantRulesRequired ==
    /\ MerchantRuleSetAbsent => (pc # "done" /\ out = <<>>)
    /\ C20_PaymentRulesOptional

\* C20: the run of refine.py has written its ledger without a merchant rule
\* set.
C20_LedgerWithoutMerchantRules ==
    /\ pc = "done"
    /\ MerchantRuleSetAbsent
    /\ out # <<>>

\* ---------------------------------------------------------------- C21
\* The rule the running pass is at does not compile.
AtInvalidChannelRule ==
    /\ pc = "identify_rule"
    /\ ~ValidRegex(payment_rules[rule_idx].pattern)

AtInvalidMerchantRule ==
    /\ pc = "clean_merchant_rule"
    /\ merchant_rules[rule_idx].replacement # EmptyText
    /\ ~ValidRegex(merchant_rules[rule_idx].pattern)

\* The merchant half of C21: the step of a merchant rule that does not
\* compile leaves the ledger as it was and goes on to the next rule.
C21_MerchantRuleSkipped ==
    [][AtInvalidMerchantRule =>
          /\ df' = df
          /\ rule_idx' = rule_idx + 1
          /\ pc' \in {"clean_merchant_rule", "classify_payment"}]_vars

\* C21: an invalid regex pattern in a single configured rule never aborts
\* the run: in the payment-channel pass and in the merchant pass the
\* offending rule alone is skipped, rows are left as they were before that
\* rule, and every other rule is still applied.
C21_InvalidRegexSkipped ==
    [][/\ pc' # "refine_raised"
       /\ (AtInvalidChannelRule \/ AtInvalidMerchantRule) =>
              /\ df' = df
              /\ rule_idx' = rule_idx + 1]_vars

\* C21: the run of refine.py has stopped at a channel rule that does not
\* compile, with rules left to apply.
C21_RunAborted ==
    /\ pc = "refine_raised"
    /\ rule_idx < Len(payment_rules)

\* ---------------------------------------------------------------- C22
HasSlash(t) == \E i \in DOMAIN t : t[i] = "/"

\* The text before the first '/', without surrounding whitespace.
RECURSIVE BeforeSlash(_)
BeforeSlash(t) ==
    IF t = <<>> \/ Head(t) = "/" THEN <<>> ELSE <<Head(t)>> \o BeforeSlash(Tail(t))

TrimmedFirstSegment(t) == TrimRight(TrimLeft(BeforeSlash(t)))

\* C22: after apply_card_mapping followed by cleanup_cathay_remaining, no row
\* of bank cube_bank has a Card_No containing '/': any such remaining number
\* is replaced by its trimmed first segment; Card_No of rows of every other
\* bank, and of cube_bank rows without '/', is left unchanged by the cleanup.
C22_DualNumbersRepaired ==
    [][pc = "cleanup_cathay" =>
        /\ Len(df') = Len(df)
        /\ \A i \in DOMAIN df :
            /\ df'[i].Bank_Name = "cube_bank" => ~HasSlash(df'[i].Card_No)
            /\ df'[i].Card_No =
                  IF df[i].Bank_Name = "cube_bank" /\ HasSlash(df[i].Card_No)
                  THEN TrimmedFirstSegment(df[i].Card_No)
                  ELSE df[i].Card_No]_vars

\* C22: the cleanup has run on a ledger with a dual number of cube_bank that
\* no rule replaced and with a dual number of another bank.
C22_Witness ==
    /\ pc = "identify"
    /\ \E i \in DOMAIN df :
        /\ df[i].Bank_Name = "cube_bank"
        /\ entry[i].Card_No = <<"1", " ", "/", "2">>
        /\ df[i].Card_No = <<"1">>

\* ---------------------------------------------------------------- C23
GroupedBank == entry[1].Bank_Name \in {"esun_bank", "hncb_bank"}

\* The input row is a master row: its merchant text carries the trigger of
\* the bank.
IsMaster(i) == Trigger(entry[1].Bank_Name, entry[i].Merchant)

DetailPositions == {i \in DOMAIN entry : ~IsMaster(i)}

\* The position in the input of the k-th detail row.
DetailAt(k) ==
    CHOOSE i \in DetailPositions :
        Cardinality({j \in DetailPositions : j <= i}) = k

\* The nearest master row before input row i, 0 when there is none.
NearestMaster(i) ==
    LET before == {j \in DOMAIN entry : j < i /\ IsMaster(j)}
    IN  IF before = {} THEN 0 ELSE SetMax(before)

\* C23: extract_card_info on a grouped-header bank with at least one master
\* row: the output contains no master row, contains every detail row exactly
\* once in the original order, and each detail row's Card_No and Card_Type
\* are the values extracted from the nearest preceding master row; detail
\* rows that precede the first master row receive no card identity.
C23_GroupedHeaderFilled ==
    (pc = "extract_done" /\ GroupedBank /\ \E i \in DOMAIN entry : IsMaster(i)) =>
        /\ Len(df) = Cardinality(DetailPositions)
        /\ \A k \in DOMAIN df :
            LET i == DetailAt(k)
                master == NearestMaster(i)
            IN  /\ ~Trigger(df[k].Bank_Name, df[k].Merchant)
                /\ df[k].Merchant = entry[i].Merchant
                /\ df[k].Bank_Name = entry[i].Bank_Name
                /\ IF master = 0
                   THEN df[k].Card_No = NaNText /\ df[k].Card_Type = NaNText
                   ELSE /\ df[k].Card_No =
                            ExtractCardNo(entry[1].Bank_Name, entry[master].Merchant)
                        /\ df[k].Card_Type =
                            ExtractCardType(entry[1].Bank_Name, entry[master].Merchant)

\* C23: a statement of a master row, a detail row, a second master row and a
\* detail row has been read: each detail row has the card of its own master
\* row.
C23_Witness ==
    /\ pc = "extract_done"
    /\ GroupedBank
    /\ Len(entry) = 4
    /\ IsMaster(1) /\ ~IsMaster(2) /\ IsMaster(3) /\ ~IsMaster(4)
    /\ Len(df) = 2
    /\ df[1].Card_No = <<"1234">>
    /\ df[2].Card_No = <<"5678">>

\* ---------------------------------------------------------------- C24
\* The date a cell resolves to, NaT when it does not resolve.
Resolved(cell) == parse_date_with_year(cell, base_year, bill_month)

\* The input positions whose Transaction_Date resolves.
KeptPositions == {i \in DOMAIN entry : Resolved(entry[i].Transaction_Date) # NaT}

KeptAt(k) ==
    CHOOSE i \in KeptPositions : Cardinality({j \in KeptPositions : j <= i}) = k

\* The rows and the dates of C24: the output is the input rows with a
\* resolved Transaction_Date, in order; the two other dates resolve or are
\* NaT on a row that is kept.
DatesAsStated ==
    /\ Len(df) = Cardinality(KeptPositions)
    /\ \A k \in DOMAIN df :
        LET i == KeptAt(k) IN
        /\ df[k].Merchant = entry[i].Merchant
        /\ df[k].Transaction_Date = Resolved(entry[i].Transaction_Date)
        /\ df[k].Posting_Date = Resolved(entry[i].Posting_Date)
        /\ df[k].Conversion_Date = Resolved(entry[i].Conversion_Date)

\* The cell holds a text that is no number.
Unparseable(cell) == cell # NaNText /\ CleanAmount(cell) = NaN

\* C24 (as stated): the assembly stage drops a row if and only if its
\* Transaction_Date fails to resolve; the output is exactly the input rows
\* with a resolved Transaction_Date, in input order; an unresolved
\* Posting_Date or Conversion_Date, or an unparseable amount, becomes 'no
\* value' (never zero) on a row that is kept.
C24_Original ==
    pc = "assemble_rows_done" =>
        /\ DatesAsStated
        /\ \A k \in DOMAIN df :
            \A col \in {"Amount", "Payment_Amount", "Currency_Amount"} :
                Unparseable(entry[KeptAt(k)][col]) => df[k][col] = NaN

\* C24 (amended): rows and dates as stated; an unparseable Amount or
\* Currency_Amount becomes 'no value'; a Payment_Amount that is unparseable
\* or missing takes the row's Amount (a number, zero included, or 'no
\* value').
C24_DroppedOnlyForTransactionDate ==
    pc = "assemble_rows_done" =>
        /\ DatesAsStated
        /\ \A k \in DOMAIN df :
            LET i == KeptAt(k) IN
            /\ df[k].Amount = CleanAmount(entry[i].Amount)
            /\ df[k].Currency_Amount = CleanAmount(entry[i].Currency_Amount)
            /\ df[k].Payment_Amount =
                  IF CleanAmount(entry[i].Payment_Amount) # NaN
                  THEN CleanAmount(entry[i].Payment_Amount)
                  ELSE CleanAmount(entry[i].Amount)

\* C24: a frame of a row whose transaction date does not resolve and a row
\* without posting date whose settlement amount is unparseable has been
\* assembled: the second row alone is left, without posting date and with
\* its amount as settlement amount.
C24_Witness ==
    /\ pc = "assemble_rows_done"
    /\ Len(entry) = 2
    /\ Resolved(entry[1].Transaction_Date) = NaT
    /\ Len(df) = 1
    /\ df[1].Posting_Date = NaT
    /\ Unparseable(entry[2].Payment_Amount)
    /\ df[1].Amount # NaN
    /\ df[1].Payment_Amount = df[1].Amount

\* ---------------------------------------------------------------- C25
\* The row was categorized by this run: it entered unset and is labelled.
CategorizedAs(d, i, types) == TypeOf(entry, i) = "" /\ TypeOf(d, i) \in types

\* C25: after classify_transaction_type, every row categorized payment,
\* credit or fee by that run has an empty Mobile_Payment and an empty pending
\* prefix, so apply_final_prefixes leaves its Merchant text unchanged;
\* payment rows additionally have empty Card_Type and Consumption_Place.
\* Rows categorized refund, zero-value or any transaction category keep
\* those fields unchanged.
C25_ContextCleared ==
    /\ pc = "final_prefixes" =>
        \A i \in DOMAIN df :
            /\ CategorizedAs(df, i, {T_PAYMENT, T_CREDIT, T_FEE}) =>
                  df[i].Mobile_Payment = "" /\ df[i].payment_prefix = EmptyText
            /\ CategorizedAs(df, i, {T_PAYMENT}) =>
                  df[i].Card_Type = "" /\ df[i].Consumption_Place = ""
            /\ CategorizedAs(df, i, {T_REFUND, T_ZERO, T_TXN} \cup ForeignTypes) =>
                  /\ df[i].Mobile_Payment = entry[i].Mobile_Payment
                  /\ df[i].payment_prefix = entry[i].payment_prefix
                  /\ df[i].Card_Type = entry[i].Card_Type
                  /\ df[i].Consumption_Place = entry[i].Consumption_Place
    /\ pc = "output" =>
        \A i \in DOMAIN df :
            CategorizedAs(df, i, {T_PAYMENT, T_CREDIT, T_FEE}) =>
                df[i].Merchant = entry[i].Merchant

\* C25: a row that entered with a channel tag and a pending prefix was
\* categorized fee, and its merchant text left the prefix stage as it was.
C25_Witness ==
    /\ pc = "output"
    /\ \E i \in DOMAIN df :
        /\ CategorizedAs(df, i, {T_FEE})
        /\ entry[i].payment_prefix # EmptyText
        /\ entry[i].Mobile_Payment # ""
        /\ df[i].Mobile_Payment = ""
        /\ df[i].Merchant = entry[i].Merchant

\* ---------------------------------------------------------------- C26
\* C26: after classify_transaction_type, a row's Transaction_Type is still
\* unset only if its settlement amount is missing and its merchant text
\* triggers none of the payment, credit or fee stages; every row with a
\* non-missing settlement amount (negative, zero or positive) ends with a
\* non-empty category.
C26_UnsetOnlyWithoutAmount ==
    PostClassify =>
        \A i \in DOMAIN df :
            /\ TypeOf(df, i) = "" =>
                  /\ entry[i].Payment_Amount = NaN
                  /\ ~(/\ ContainsAnyFold(entry[i].Merchant, config.payment_keywords)
                       /\ ~ContainsAnyFold(entry[i].Merchant, ExclusionWords))
                  /\ ~ContainsAnyFold(entry[i].Merchant, config.credit_keywords)
                  /\ ~ContainsAnyFold(entry[i].Merchant, config.fee_keywords)
            /\ entry[i].Payment_Amount # NaN => TypeOf(df, i) # ""

\* C26: a row without settlement amount left the classification unset.
C26_Witness ==
    /\ pc = "done"
    /\ \E i \in DOMAIN out : TypeOf(out, i) = "" /\ entry[i].Payment_Amount = NaN

\* ---------------------------------------------------------------- C27
\* The rules with a replacement whose pattern is found in the text.
FilledRulesMatching(text) ==
    {k \in RulesMatching(text) : merchant_rules[k].replacement # EmptyText}

\* The rules of the set that no rule of the set outranks.
HighestPriority(ks) ==
    {k \in ks : \A j \in ks : Priority(merchant_rules[k]) >= Priority(merchant_rules[j])}

\* C27: clean_merchant_by_regex picks the highest-priority match: a row whose
\* original merchant text matches rules with a replacement ends with the
\* replacement of a matching rule of the highest priority; no rule of lower
\* priority evaluated later overrides it, not even by matching the text
\* the earlier rule wrote.
C27_HighestPriorityWins ==
    (AfterCleanMerchant /\ merchant_csv.has_priority) =>
        \A i \in DOMAIN df :
            FilledRulesMatching(entry[i].Merchant) # {} =>
                \E k \in HighestPriority(FilledRulesMatching(entry[i].Merchant)) :
                    df[i].Merchant = merchant_rules[k].replacement

\* C27: the pass ended with the replacement of the rule of lower priority on
\* a row whose original text matched two rules of different priority.
C27_LowerPriorityWon ==
    /\ AfterCleanMerchant
    /\ merchant_csv.has_priority
    /\ \E i \in DOMAIN df :
          \E k, j \in FilledRulesMatching(entry[i].Merchant) :
              /\ Priority(merchant_rules[k]) > Priority(merchant_rules[j])
              /\ df[i].Merchant = merchant_rules[j].replacement
              /\ df[i].Merchant # merchant_rules[k].replacement

\* ---------------------------------------------------------------- C28
\* The rows a channel rule without prefix label tagged: their pending prefix
\* is the missing value the rule's empty Prefix_Label cell was read as.
TaggedWithoutLabel(d) == {i \in DOMAIN d : d[i].payment_prefix = NaNText}

\* C28: apply_final_prefixes never loses merchant text: on its step every
\* row's Merchant becomes its pending prefix followed by its previous
\* Merchant, unchanged when there is no prefix (also for a row tagged by a
\* rule that declares no prefix label), and no Merchant becomes missing.
C28_MerchantTextKept ==
    [][pc = "final_prefixes" =>
          \A i \in DOMAIN df :
              /\ df'[i].Merchant =
                    IF df[i].payment_prefix \in {EmptyText, NaNText}
                    THEN df[i].Merchant
                    ELSE df[i].payment_prefix \o df[i].Merchant
              /\ df[i].Merchant # NaNText => df'[i].Merchant # NaNText]_vars

\* C28: a row tagged by a channel rule without prefix label is about to
\* have its prefix merged.
C28_UnlabelledTagPending ==
    /\ pc = "final_prefixes"
    /\ payment_rules # <<>>
    /\ \E i \in TaggedWithoutLabel(df) : df[i].Merchant # NaNText

\* C28: rows with a pending prefix text had it put before their Merchant.
C28_LabelledPrefixMerged ==
    [][pc = "final_prefixes" =>
          \A i \in DOMAIN df :
              df[i].payment_prefix # NaNText =>
                  df'[i].Merchant = df[i].payment_prefix \o df[i].Merchant]_vars

\* ---------------------------------------------------------------- C29
\* Rule r matches row i by the row's Card_No and Mobile_Payment as they were
\* before any rule was applied.
MatchesOriginal(r, i) ==
    LET fragment == RemoveSpaces(r.card_no)
        original == Strip(RemoveSpaces(entry[i].Card_No))
        tag == IF entry[i].Mobile_Payment = "nan" THEN "" ELSE entry[i].Mobile_Payment
    IN  /\ fragment # EmptyText
        /\ original = fragment
        /\ (\E k \in DOMAIN fragment : fragment[k] = "/") \/ r.mobile = "" \/ tag = r.mobile

\* C29: in apply_card_mapping a rule matches a row by the row's Card_No as
\* it was before any rule was applied: a rule changes a row only if the
\* original number is its fragment (a rule that targets a replacement number
\* does not match), and a rule whose fragment is the original number still
\* writes its values on a row an earlier rule gave another number.
C29_MatchOnOriginalCardNo ==
    [][pc = "card_rule" =>
          \A i \in DOMAIN df :
              LET r == card_rules[rule_idx]
              IN  /\ df'[i] # df[i] => MatchesOriginal(r, i)
                  /\ MatchesOriginal(r, i) =>
                        /\ r.replace # EmptyText => df'[i].Card_No = r.replace
                        /\ r.card_type # "" => df'[i].Card_Type = r.card_type
                        /\ r.prefix # EmptyText => df'[i].payment_prefix = r.prefix]_vars

\* C29: the loop is over; the first rule replaced the number of a row, the
\* second rule targets the original number and replaced it again, or
\* targets the replacement number and left the row alone.
C29_Witness ==
    /\ pc = "cleanup_cathay"
    /\ Len(card_rules) = 2
    /\ \E i \in DOMAIN df :
          /\ MatchesOriginal(card_rules[1], i)
          /\ card_rules[1].replace # EmptyText
          /\ card_rules[1].replace # entry[i].Card_No
          /\ card_rules[2].replace # EmptyText
          /\ \/ /\ MatchesOriginal(card_rules[2], i)
                /\ df[i].Card_No = card_rules[2].replace
             \/ /\ RemoveSpaces(card_rules[2].card_no) = card_rules[1].replace
                /\ card_rules[2].mobile = ""
                /\ df[i].Card_No = card_rules[1].replace

\* ---------------------------------------------------------------- C30
\* C30: after classify_transaction_type, every row the run categorized as
\* plain transaction has Merchant_Location equal to the home country TW, and
\* every row it categorized with one of the three foreign sub-categories has
\* a Merchant_Location other than TW and a settlement amount above zero.
C30_HomeAndForeign ==
    PostClassify =>
        \A i \in DOMAIN df :
            entry[i].Transaction_Type = "" =>
                /\ TypeOf(df, i) = T_TXN => df[i].Merchant_Location = TW
                /\ TypeOf(df, i) \in ForeignTypes =>
                      /\ df[i].Merchant_Location # TW
                      /\ IsNum(df[i].Payment_Amount)
                      /\ Val(df[i].Payment_Amount) > 0

\* C30: the run is over and a row outside the home country that carries no
\* transaction amount holds a foreign sub-category.
C30_Witness ==
    /\ pc = "done"
    /\ \E i \in DOMAIN df :
          /\ entry[i].Transaction_Type = ""
          /\ TypeOf(df, i) = T_TWD_CROSS
          /\ entry[i].Currency_Amount = NaN
          /\ df[i].Merchant_Location = JP
          /\ df[i].Payment_Amount = Num(50)

====
